---- MODULE Spec2Model ----
(***************************************************************************)
(* A model of the resolver combinators of noisysockets/resolver:           *)
(* Sequential / RoundRobin / Chain (one loop over inner resolvers),        *)
(* Parallel (one goroutine per inner resolver racing on a channel) and     *)
(* Retry (retry-go's DoWithData around one inner resolver).                *)
(*                                                                         *)
(* Inner resolvers are mocks: every invocation returns one of a small set  *)
(* of outcomes, chosen afresh each time.  An outcome is a record           *)
(* [addrs, err]; err = Nil is Go's nil error.                              *)
(***************************************************************************)
EXTENDS Integers, Sequences, FiniteSets, TLC

\* ------------------------------------------------------------------ bounds
\* The largest number of inner resolvers a combinator is constructed with.
MaxResolvers == 3
\* The largest number of inner resolvers Parallel is constructed with.
MaxParallel == 2
\* The largest value of RetryResolverConfig.Attempts that is explored.
MaxAttempts == 3
\* With attempts = 0 Retry loops forever: the model stops invoking after this many calls.
MaxCalls == 4
\* The longest search list Relative is configured with.
MaxSearch == 2
\* The largest ndots Relative is configured with.
MaxNdots == 2
\* The longest list that SortByRFC6724 is applied to on its own.
MaxSortLen == 3
\* The longest address list an inner resolver answers with.
MaxInnerAddrs == 2
\* The longest server list of the older DNS client.
MaxServers == 2

\* ------------------------------------------------------- program constants
\* util.PointerTo(2): the default of RetryResolverConfig.Attempts.
DefaultAttempts == 2

VARIABLES
    \* --- the contexts
    callerCtx,    \* Err() of the ctx argument: Nil, Canceled or DeadlineExceeded
    derivedCtx,   \* Err() of Parallel's context.WithCancel(ctx) child
    \* --- Sequential / RoundRobin / Chain
    sKind,        \* which combinator was constructed
    sResolvers,   \* r.resolvers, a sequence of inner resolver ids
    sPc,          \* "idle", "loop", "done"
    sOrder,       \* the list the loop ranges over (rotatedResolvers for RoundRobin)
    sI,           \* number of loop iterations completed
    sErrs,        \* errs (Sequential, RoundRobin), <<firstErr>> or <<>> (Chain)
    sCalls,       \* log: the inner invocations of this call, <<id, outcome>> each
    sRet,         \* the value LookupNetIP returned
    \* --- Parallel
    pN,           \* len(r.resolvers)
    pMain,        \* "idle", "spawn", "select", "parked", "woken", "done"
    pSpawned,     \* number of task goroutines started so far
    pSel,         \* the select case the main goroutine was committed to
    pTask,        \* pc of each task goroutine
    pOut,         \* the outcome each task's inner lookup returned
    pCloser,      \* pc of the goroutine that waits on wg and closes results
    pWg,          \* the WaitGroup counter
    pClosed,      \* results is closed
    pMu,          \* holder of errsMu, 0 when unlocked
    pErrs,        \* errs
    pRet,         \* the value LookupNetIP returned
    pHist,        \* log: facts about the call that the code does not store
    \* --- Retry
    rConf,        \* conf as given to Retry: NilConf or Conf(attempts)
    rPc,          \* "idle", "inflight", "wait", "done"
    rN,           \* n of DoWithData
    rErrorLog,    \* errorLog of DoWithData
    rCalls,       \* log: the outcome of every inner invocation of this call
    rStarted,     \* log: number of inner invocations started
    rRet,         \* the value LookupNetIP returned
    \* --- Relative
    rlKind,       \* which version of relativeResolver
    rlSearch,     \* r.search, a sequence of domain names
    rlNdots,      \* r.ndots
    rlHost,       \* the host argument of the call
    rlPc,         \* "idle", "loop", "done"
    rlNames,      \* names
    rlI,          \* number of loop iterations completed
    rlErrs,       \* errs, or <<firstErr>> / <<>>
    rlCalls,      \* log: the inner invocations of this call, <<name, outcome>> each
    rlRet,        \* the value LookupNetIP returned
    \* --- SortByRFC6724 on its own
    soAddrs,      \* addrs as given
    soPc,         \* "idle", "once", "twice"
    soSrcs,       \* the source address each probe found, NoSource when it failed
    soPerm,       \* log: the input position of each element of the sorted list
    soOnce,       \* addrs after the sort
    soTwice,      \* the sorted list after a second sort
    \* --- DNS64
    dConf,        \* conf.Prefix as given to DNS64: D64NilConf or a prefix
    dPc,          \* "idle", "inner", "partitioned", "done"
    dNetwork,     \* the network argument of the call
    dInnerNetwork, \* log: the network the inner resolver was asked for
    dInner,       \* what the inner resolver returned
    dSrcs,        \* the source address each probe found
    dRet,         \* the value LookupNetIP returned
    \* --- PreferredAddress
    paPc,         \* "idle", "inner", "answered", "done"
    paNetwork,    \* the network argument of the call
    paInner,      \* what the inner resolver returned
    paSrcs,       \* the source address each probe found
    paRet,        \* the value LookupNetIP returned
    \* --- Hosts
    hTable,       \* r.nameToAddr: for each name its entry, Absent when there is none
    hMu,          \* r.mu: the writer and the readers holding it
    hCaller,      \* for each caller: the method it is in, its arguments and its pc
    hLast,        \* log: what last set each name's entry (Hosts, AddHost, RemoveHost)
    \* --- Literal
    litPc,        \* "idle", "localhost", "parse", "network", "filter", "done"
    litHost,      \* the host argument of the call
    litNetwork,   \* the network argument of the call
    litAddrs,     \* the local variable addrs
    litRound,     \* 1 in the first lookup, 2 when it is repeated
    litOnce,      \* log: what the first lookup returned
    litRet,       \* the value LookupNetIP returned
    \* --- DNS
    dnsConf,      \* the version of the client and its configuration
    dnsPc,        \* "idle", "enter", "queries", "returned", "done"
    dnsHost,      \* the host argument of the call
    dnsNetwork,   \* the network argument of the call
    dnsSrv,       \* the server being asked (its place in the list)
    dnsQ,         \* for each query type: "off", "handshake", "exchange", "end"
    dnsAddrs,     \* the local variable addrs
    dnsEv,        \* log: for each query type what happened to it and what tryOneName returned
    dnsErr,       \* the first error of a query in this attempt, Nil when none
    dnsOut,       \* what the client's LookupNetIP returned in this attempt
    dnsCalls,     \* log: what each attempt returned
    dnsLog,       \* log: the dials made and the queries sent in this call
    dnsConn,      \* for each query type of this attempt: the dials, the queries sent, the connection
    dnsRet,       \* the value Retry's LookupNetIP returned
    \* --- LookupHost beside LookupNetIP
    lhConf,       \* the resolver: its kind and the number of inner resolvers or attempts
    lhPc,         \* "idle", "host", "between", "ip", "done"
    lhScript,     \* what each inner resolver (or attempt) answers
    lhOrder,      \* the order of the inner resolvers in the call under way
    lhHostOrder,  \* log: the order LookupHost went through them
    lhI,          \* the inner calls made in the call under way
    lhErrs,       \* firstErr, or retry's error log
    lhHostRet,    \* the value LookupHost returned
    lhIpRet,      \* the value LookupNetIP returned
    \* --- System
    sysConf,      \* the system DNS configuration: rotate, attempts, search
    sysPc,        \* "idle", "literal", "hosts", "dns", "name", "pass", "done"
    sysHost,      \* the host argument
    sysNetwork,   \* the network argument
    sysTrace,     \* the resolvers of the outer list asked so far, in order
    sysNames,     \* the names the DNS resolvers are asked for
    sysNameI,     \* how many of them have failed
    sysN,         \* the attempts Retry has finished for the name
    sysOrder,     \* the order in which the pass walks the servers
    sysPass,      \* the servers the pass has asked
    sysErrs,      \* the errors kept by Sequential, Relative, Retry and the pass
    sysCalls,     \* every invocation of a DNS resolver: <<server, name>>
    sysRet        \* the value returned

ctxVars == <<callerCtx, derivedCtx>>
seqVars == <<sKind, sResolvers, sPc, sOrder, sI, sErrs, sCalls, sRet>>
parVars == <<pN, pMain, pSpawned, pSel, pTask, pOut, pCloser, pWg, pClosed, pMu,
             pErrs, pRet, pHist>>
retryVars == <<rConf, rPc, rN, rErrorLog, rCalls, rStarted, rRet>>
coreVars == <<ctxVars, seqVars, parVars, retryVars>>
relVars == <<rlKind, rlSearch, rlNdots, rlHost, rlPc, rlNames, rlI, rlErrs, rlCalls,
             rlRet>>
\* The resolvers added to the model after the four above, and what each of them
\* leaves alone.
sortVars == <<soAddrs, soPc, soSrcs, soPerm, soOnce, soTwice>>
d64Vars == <<dConf, dPc, dNetwork, dInnerNetwork, dInner, dSrcs, dRet>>
paVars == <<paPc, paNetwork, paInner, paSrcs, paRet>>
hostsVars == <<hTable, hMu, hCaller, hLast>>
litVars == <<litPc, litHost, litNetwork, litAddrs, litRound, litOnce, litRet>>
\* The resolvers added after those, and what each of them leaves alone.
dnsVars == <<dnsConf, dnsPc, dnsHost, dnsNetwork, dnsSrv, dnsQ, dnsEv, dnsAddrs, dnsErr, dnsOut,
             dnsCalls, dnsLog, dnsConn, dnsRet>>
lhVars == <<lhConf, lhPc, lhScript, lhOrder, lhHostOrder, lhI, lhErrs, lhHostRet, lhIpRet>>
sysVars == <<sysConf, sysPc, sysHost, sysNetwork, sysTrace, sysNames, sysNameI, sysN,
             sysOrder, sysPass, sysErrs, sysCalls, sysRet>>
extraVars == <<litVars, dnsVars, lhVars, sysVars>>
laterVars == <<relVars, sortVars, d64Vars, paVars, hostsVars>>
notLitVars == <<coreVars, laterVars, dnsVars, lhVars, sysVars>>
notDnsVars == <<coreVars, laterVars, litVars, lhVars, sysVars>>
notLhVars == <<coreVars, laterVars, litVars, dnsVars, sysVars>>
notSysVars == <<coreVars, laterVars, litVars, dnsVars, lhVars>>
moreVars == <<laterVars, extraVars>>
notRelVars == <<coreVars, sortVars, d64Vars, paVars, hostsVars, extraVars>>
notSortVars == <<coreVars, relVars, d64Vars, paVars, hostsVars, extraVars>>
notD64Vars == <<coreVars, relVars, sortVars, paVars, hostsVars, extraVars>>
notPaVars == <<coreVars, relVars, sortVars, d64Vars, hostsVars, extraVars>>
notHostsVars == <<coreVars, relVars, sortVars, d64Vars, paVars, extraVars>>
vars == <<coreVars, moreVars>>

\* ------------------------------------------------------------------ errors
Nil == [kind |-> "nil"]
Canceled == [kind |-> "context canceled"]
DeadlineExceeded == [kind |-> "context deadline exceeded"]
CtxErrors == {Canceled, DeadlineExceeded}

ErrNoSuchHost == "no such host"
ErrServerMisbehaving == "server misbehaving"

\* &net.DNSError{Err: ..., Server: ..., IsNotFound: ..., IsTemporary: ...}
DNSError(msg, server, notFound, temporary) ==
    [kind |-> "dns", err |-> msg, server |-> server,
     isNotFound |-> notFound, isTemporary |-> temporary]

\* The error the mock resolver `id` returns for an unknown name.
NotFound(id) == DNSError(ErrNoSuchHost, id, TRUE, FALSE)
\* The error the mock resolver `id` returns for a failing server (SERVFAIL).
ServFail(id) == DNSError(ErrServerMisbehaving, id, FALSE, TRUE)
\* The NotFound error a combinator makes up itself (no server).
SynthesizedNotFound == DNSError(ErrNoSuchHost, 0, TRUE, FALSE)

\* errors.Join: nil values are discarded; nil when nothing is left.
NonNil(errs) == SelectSeq(errs, LAMBDA e : e # Nil)
Join(errs) ==
    IF NonNil(errs) = <<>> THEN Nil ELSE [kind |-> "join", errs |-> NonNil(errs)]

\* The errors a returned error holds: itself, or the list a joined error wraps.
Unjoin(e) ==
    IF e.kind = "join" THEN e.errs ELSE IF e = Nil THEN <<>> ELSE <<e>>

\* errors.As(err, &dnsErr): the first *net.DNSError in the error, Nil when none.
AsDNSError(e) ==
    LET ds == SelectSeq(Unjoin(e), LAMBDA x : x.kind = "dns")
    IN IF ds = <<>> THEN Nil ELSE ds[1]

\* isTemporary: the classification Retry consults.
isTemporary(e) == IF e.kind = "dns" THEN e.isTemporary ELSE FALSE

\* ---------------------------------------------------------------- outcomes
NoAddrs == <<>>
Ok(addrs) == [addrs |-> addrs, err |-> Nil]
Fail(e) == [addrs |-> NoAddrs, err |-> e]
NoRet == [addrs |-> NoAddrs, err |-> [kind |-> "none"]]

\* What the mock resolver `id` can answer: its own address, or one of its errors.
MockAddrs(id) == <<"10.0.0." \o ToString(id)>>
MockOutcomes(id) == {Ok(MockAddrs(id)), Fail(NotFound(id)), Fail(ServFail(id))}
\* A resolver that honours its context answers with the context's error once it is done.
InnerOutcomes(id, ctxErr) ==
    MockOutcomes(id) \cup (IF ctxErr = Nil THEN {} ELSE {Fail(ctxErr)})

Ids(n) == [i \in 1..n |-> i]
Last(s) == s[Len(s)]
Range(s) == {s[i] : i \in 1..Len(s)}

\* util.Shuffle: every permutation of the list is a possible result.
Shuffle(list) ==
    {[i \in 1..Len(list) |-> list[p[i]]] :
        p \in {q \in [1..Len(list) -> 1..Len(list)] : Range(q) = 1..Len(list)}}

\* ------------------------------------------------------------ the contexts
\* The caller cancels the context, or its deadline passes.
CancelCaller(err) ==
    /\ callerCtx = Nil
    /\ callerCtx' = err

\* ===================================================== Sequential and kin
\* "RoundRobinFirstErr" is the RoundRobin that runs its own loop and keeps the
\* first error; "RoundRobin" is the one that delegates to Sequential.
SeqKinds == {"Sequential", "RoundRobin", "Chain", "RoundRobinFirstErr"}
ShufflingKinds == {"RoundRobin", "RoundRobinFirstErr"}
FirstErrKinds == {"Chain", "RoundRobinFirstErr"}

\* A mutant of SeqOrder: the list is walked from its end.
SeqOrderReversed(kind, resolvers) ==
    {[i \in 1..Len(resolvers) |-> resolvers[Len(resolvers) + 1 - i]]}

\* The list the loop ranges over: RoundRobin shuffles a copy, the others use
\* r.resolvers itself.
SeqOrder(kind, resolvers) ==
    IF kind \in ShufflingKinds THEN Shuffle(resolvers) ELSE {resolvers}

\* A mutant of SeqOrderGiven: the draw continues after the order of the call before.
SeqOrderFromCursor(kind, resolvers, previous) ==
    IF kind \in ShufflingKinds /\ Len(previous) = Len(resolvers) /\ Len(resolvers) > 1
    THEN {[i \in 1..Len(resolvers) |-> previous[(i % Len(resolvers)) + 1]]}
    ELSE SeqOrder(kind, resolvers)

\* The orders a call can use, given the order the call before it used: the
\* shuffle works on a fresh copy and nothing of an earlier call is kept.
SeqOrderGiven(kind, resolvers, previous) == SeqOrder(kind, resolvers)

\* A mutant of SeqListAfterCall: the shuffle is done on r.resolvers itself.
SeqListShuffledInPlace(kind, resolvers, order) == order

\* r.resolvers after the call has prepared its list: RoundRobin shuffles a copy
\* (make, copy), so the configured list is what it was.
SeqListAfterCall(kind, resolvers, order) == resolvers

\* A mutant of SeqNoteErr: every combinator keeps the first error only.
SeqNoteFirstErr(kind, errs, err) == IF errs = <<>> THEN <<err>> ELSE errs

\* The loop body's bookkeeping of a failed attempt: Sequential appends to errs,
\* Chain keeps the first error only.
SeqNoteErr(kind, errs, err) ==
    IF kind \in FirstErrKinds
    THEN (IF errs = <<>> THEN <<err>> ELSE errs)
    ELSE Append(errs, err)

\* The return after the loop: Sequential joins errs; Chain returns firstErr, or a
\* made-up NotFound when there is none.
SeqFinal(kind, errs) ==
    IF kind \in FirstErrKinds
    THEN (IF errs # <<>> THEN Fail(errs[1]) ELSE Fail(SynthesizedNotFound))
    ELSE Fail(Join(errs))

\* Whether the loop goes on to another resolver.
SeqMore(order, i) == i < Len(order)

SeqIdle ==
    /\ sPc = "idle" /\ sOrder = <<>> /\ sI = 0 /\ sErrs = <<>>
    /\ sCalls = <<>> /\ sRet = NoRet

\* LookupNetIP is entered.
SeqCall ==
    /\ sPc = "idle"
    /\ \E order \in SeqOrderGiven(sKind, sResolvers, sOrder) :
         /\ sOrder' = order
         /\ sResolvers' = SeqListAfterCall(sKind, sResolvers, order)
    /\ sPc' = "loop"
    /\ sI' = 0 /\ sErrs' = <<>> /\ sCalls' = <<>> /\ sRet' = NoRet
    /\ UNCHANGED <<sKind, ctxVars, parVars, retryVars>>
    /\ UNCHANGED moreVars

\* One iteration: the next resolver is invoked and answers.
SeqTry ==
    /\ sPc = "loop"
    /\ SeqMore(sOrder, sI)
    /\ LET id == sOrder[sI + 1] IN
         \E out \in InnerOutcomes(id, callerCtx) :
            /\ sCalls' = Append(sCalls, <<id, out>>)
            /\ sI' = sI + 1
            /\ IF out.err = Nil
               THEN /\ sRet' = Ok(out.addrs)
                    /\ sPc' = "done"
                    /\ sErrs' = sErrs
               ELSE /\ sErrs' = SeqNoteErr(sKind, sErrs, out.err)
                    /\ UNCHANGED <<sRet, sPc>>
    /\ UNCHANGED <<sKind, sResolvers, sOrder, ctxVars, parVars, retryVars>>
    /\ UNCHANGED moreVars

\* The loop is over without a success.
SeqExhausted ==
    /\ sPc = "loop"
    /\ ~SeqMore(sOrder, sI)
    /\ sRet' = SeqFinal(sKind, sErrs)
    /\ sPc' = "done"
    /\ UNCHANGED <<sKind, sResolvers, sOrder, sI, sErrs, sCalls, ctxVars, parVars,
                   retryVars>>
    /\ UNCHANGED moreVars

\* The caller is ready for its next call, with a fresh context.
SeqAgain ==
    /\ sPc = "done"
    /\ sPc' = "idle"
    /\ callerCtx' = Nil
    /\ UNCHANGED <<derivedCtx, sKind, sResolvers, sOrder, sI, sErrs, sCalls, sRet,
                   parVars, retryVars>>
    /\ UNCHANGED moreVars

SeqCancel ==
    /\ sPc # "done"
    /\ \E err \in CtxErrors : CancelCaller(err)
    /\ UNCHANGED <<derivedCtx, seqVars, parVars, retryVars>>
    /\ UNCHANGED moreVars

\* ================================================================ Parallel
\* Goroutines: main (LookupNetIP itself), the closer (wg.Wait; close(results))
\* and one task per inner resolver.  results is unbuffered: a send completes
\* only by meeting a receive.  The only receive is main's select, which runs once.
NoSel == [case |-> "none", addrs |-> NoAddrs]

ParTasks == 1..pN
TaskBusy(pc) == pc \notin {"unspawned", "done"}

\* A mutant of ParReady: the select has no <-ctx.Done() case.
ParReadyNoCtx(task, closed, ctxErr) ==
    {[case |-> "value", from |-> i] : i \in {j \in DOMAIN task : task[j] = "blocked"}}
    \cup (IF closed THEN {[case |-> "closed", from |-> 0]} ELSE {})

\* The cases of main's select that can proceed when main reaches it: a task is
\* blocked in its send, results is closed, or ctx.Done() is closed.  Go picks
\* among the ready cases at random.
ParReady(task, closed, ctxErr) ==
    {[case |-> "value", from |-> i] : i \in {j \in DOMAIN task : task[j] = "blocked"}}
    \cup (IF closed THEN {[case |-> "closed", from |-> 0]} ELSE {})
    \cup (IF ctxErr # Nil THEN {[case |-> "ctx", from |-> 0]} ELSE {})

\* What LookupNetIP returns for the select case taken.
ParResult(sel, errs, ctxErr) ==
    CASE sel.case = "value" -> Ok(sel.addrs)
      [] sel.case = "closed" -> Fail(Join(errs))
      [] sel.case = "ctx" -> Fail(ctxErr)

\* A mutant of WgWaitOver: the closer does not wait for the tasks.
WgWaitSkipped(wg) == TRUE

\* wg.Wait() returns when the counter is zero.
WgWaitOver(wg) == wg = 0

\* Bookkeeping for the properties: whether the parent context was done before
\* any inner lookup had succeeded.
NoSuccessYet == \A i \in ParTasks : pOut[i].err # Nil

\* LookupNetIP is entered: the channel, the derived context; wg.Add; go closer.
ParCall ==
    /\ pMain = "idle"
    /\ derivedCtx' = callerCtx
    /\ pWg' = pN
    /\ pCloser' = "wait"
    /\ pMain' = "spawn"
    /\ UNCHANGED <<callerCtx, pN, pSpawned, pSel, pTask, pOut, pClosed, pMu, pErrs,
                   pRet, pHist, seqVars, retryVars>>
    /\ UNCHANGED moreVars

\* One iteration of the for loop: go func(resolver) {...}.
ParSpawn ==
    /\ pMain = "spawn"
    /\ pSpawned < pN
    /\ pSpawned' = pSpawned + 1
    /\ pTask' = [pTask EXCEPT ![pSpawned + 1] = "lookup"]
    /\ UNCHANGED <<ctxVars, pN, pMain, pSel, pOut, pCloser, pWg, pClosed, pMu, pErrs,
                   pRet, pHist, seqVars, retryVars>>
    /\ UNCHANGED moreVars

\* The for loop is over; main arrives at the select.
ParLoopEnd ==
    /\ pMain = "spawn"
    /\ pSpawned = pN
    /\ pMain' = "select"
    /\ UNCHANGED <<ctxVars, pN, pSpawned, pSel, pTask, pOut, pCloser, pWg, pClosed,
                   pMu, pErrs, pRet, pHist, seqVars, retryVars>>
    /\ UNCHANGED moreVars

\* The select finds at least one case ready and takes one of them; a sender
\* whose value is taken goes on.
ParSelectTake ==
    /\ pMain = "select"
    /\ \E c \in ParReady(pTask, pClosed, derivedCtx) :
         /\ pSel' = [case |-> c.case,
                     addrs |-> IF c.case = "value" THEN pOut[c.from].addrs ELSE NoAddrs]
         /\ pTask' = IF c.case = "value" THEN [pTask EXCEPT ![c.from] = "lock"] ELSE pTask
         /\ pHist' = [pHist EXCEPT !.ctxAlone =
                         ParReady(pTask, pClosed, derivedCtx) = {[case |-> "ctx", from |-> 0]}]
    /\ pMain' = "woken"
    /\ UNCHANGED <<ctxVars, pN, pSpawned, pOut, pCloser, pWg, pClosed, pMu, pErrs,
                   pRet, seqVars, retryVars>>
    /\ UNCHANGED moreVars

\* The select finds no case ready: main parks on both channels.
ParSelectPark ==
    /\ pMain = "select"
    /\ ParReady(pTask, pClosed, derivedCtx) = {}
    /\ pMain' = "parked"
    /\ UNCHANGED <<ctxVars, pN, pSpawned, pSel, pTask, pOut, pCloser, pWg, pClosed,
                   pMu, pErrs, pRet, pHist, seqVars, retryVars>>
    /\ UNCHANGED moreVars

\* Main returns what the case taken says; the deferred cancel() runs.
ParReturn ==
    /\ pMain = "woken"
    /\ pRet' = ParResult(pSel, pErrs, derivedCtx)
    /\ derivedCtx' = IF derivedCtx = Nil THEN Canceled ELSE derivedCtx
    /\ pMain' = "done"
    /\ pHist' = [pHist EXCEPT !.busyAtReturn = {i \in ParTasks : TaskBusy(pTask[i])}]
    /\ UNCHANGED <<callerCtx, pN, pSpawned, pSel, pTask, pOut, pCloser, pWg, pClosed,
                   pMu, pErrs, seqVars, retryVars>>
    /\ UNCHANGED moreVars

\* A mutant of Delivers: the task sends whatever the lookup returned.
DeliversAlways(out) == TRUE

\* if err == nil { results <- addrs }
Delivers(out) == out.err = Nil

\* resolver.LookupNetIP(ctx, network, host) returns in task i.
TaskLookup(i) ==
    /\ pTask[i] = "lookup"
    /\ \E out \in InnerOutcomes(i, derivedCtx) :
         /\ pOut' = [pOut EXCEPT ![i] = out]
         /\ pTask' = [pTask EXCEPT ![i] = IF Delivers(out) THEN "send" ELSE "lock"]
    /\ UNCHANGED <<ctxVars, pN, pMain, pSpawned, pSel, pCloser, pWg, pClosed, pMu,
                   pErrs, pRet, pHist, seqVars, retryVars>>
    /\ UNCHANGED moreVars

\* results <- addrs in task i: handed to main if main is parked in the select,
\* otherwise the task blocks until a receiver comes.
TaskSend(i) ==
    /\ pTask[i] = "send"
    /\ IF pMain = "parked"
       THEN /\ pSel' = [case |-> "value", addrs |-> pOut[i].addrs]
            /\ pMain' = "woken"
            /\ pTask' = [pTask EXCEPT ![i] = "lock"]
       ELSE /\ pTask' = [pTask EXCEPT ![i] = "blocked"]
            /\ UNCHANGED <<pSel, pMain>>
    /\ UNCHANGED <<ctxVars, pN, pSpawned, pOut, pCloser, pWg, pClosed, pMu, pErrs,
                   pRet, pHist, seqVars, retryVars>>
    /\ UNCHANGED moreVars

\* errsMu.Lock() in task i.
TaskLock(i) ==
    /\ pTask[i] = "lock"
    /\ pMu = 0
    /\ pMu' = i
    /\ pTask' = [pTask EXCEPT ![i] = "append"]
    /\ UNCHANGED <<ctxVars, pN, pMain, pSpawned, pSel, pOut, pCloser, pWg, pClosed,
                   pErrs, pRet, pHist, seqVars, retryVars>>
    /\ UNCHANGED moreVars

\* errs = append(errs, err); errsMu.Unlock() in task i (err is nil after a send).
TaskAppend(i) ==
    /\ pTask[i] = "append"
    /\ pErrs' = Append(pErrs, pOut[i].err)
    /\ pMu' = 0
    /\ pTask' = [pTask EXCEPT ![i] = "exit"]
    /\ UNCHANGED <<ctxVars, pN, pMain, pSpawned, pSel, pOut, pCloser, pWg, pClosed,
                   pRet, pHist, seqVars, retryVars>>
    /\ UNCHANGED moreVars

\* The deferred wg.Done() of task i.
TaskExit(i) ==
    /\ pTask[i] = "exit"
    /\ pWg' = pWg - 1
    /\ pTask' = [pTask EXCEPT ![i] = "done"]
    /\ UNCHANGED <<ctxVars, pN, pMain, pSpawned, pSel, pOut, pCloser, pClosed, pMu,
                   pErrs, pRet, pHist, seqVars, retryVars>>
    /\ UNCHANGED moreVars

\* The closer: wg.Wait() is over, close(results); a parked main wakes on it.
CloserClose ==
    /\ pCloser = "wait"
    /\ WgWaitOver(pWg)
    /\ pClosed' = TRUE
    /\ pCloser' = "done"
    /\ IF pMain = "parked"
       THEN pSel' = [case |-> "closed", addrs |-> NoAddrs] /\ pMain' = "woken"
       ELSE UNCHANGED <<pSel, pMain>>
    /\ UNCHANGED <<ctxVars, pN, pSpawned, pTask, pOut, pWg, pMu, pErrs, pRet, pHist,
                   seqVars, retryVars>>
    /\ UNCHANGED moreVars

\* The parent context is cancelled or times out: the derived context is done with
\* the same error, and a parked main wakes on ctx.Done().
ParCancel ==
    /\ pMain # "done"
    /\ \E err \in CtxErrors : CancelCaller(err) /\ derivedCtx' = err
    /\ IF pMain = "parked"
       THEN pSel' = [case |-> "ctx", addrs |-> NoAddrs] /\ pMain' = "woken"
       ELSE UNCHANGED <<pSel, pMain>>
    /\ pHist' = [pHist EXCEPT !.cancelFirst = NoSuccessYet /\ pMain # "woken",
                              !.ctxAlone = (pMain = "parked")]
    /\ UNCHANGED <<pN, pSpawned, pTask, pOut, pCloser, pWg, pClosed, pMu, pErrs, pRet,
                   seqVars, retryVars>>
    /\ UNCHANGED moreVars

\* =================================================================== Retry
\* retryResolver.LookupNetIP is retry.DoWithData(inner lookup, Context(ctx),
\* Attempts(r.attempts), RetryIf(isTemporary), LastErrorOnly(true)).
\* DoWithData checks ctx.Err() once on entry, then loops: call; on a retryable
\* error wait in a select on the backoff timer and ctx.Done().  The backoff
\* delay is positive, so a context that is done when the select is reached, or
\* becomes done before the timer fires, wins the select.  A check and the call
\* that follows it are one step: no code lies between them.

\* conf as given to Retry: nil, or a config with Attempts set.
NilConf == [isNil |-> TRUE, attempts |-> 0]
Conf(n) == [isNil |-> FALSE, attempts |-> n]

\* A mutant of RetryAttempts: a configured 0 counts as one attempt.
RetryAttemptsAtLeastOne(conf) ==
    IF conf.isNil THEN DefaultAttempts
    ELSE IF conf.attempts = 0 THEN 1 ELSE conf.attempts

\* Retry(resolver, conf): r.attempts after the defaults are merged in.
RetryAttempts(conf) == IF conf.isNil THEN DefaultAttempts ELSE conf.attempts

\* A mutant of RetryIf: every error is retried.
RetryIfAny(err) == TRUE

\* retry.RetryIf(isTemporary)
RetryIf(err) == isTemporary(err)

\* "if this is last attempt - don't wait": n == config.attempts-1
LastAttempt(n, attempts) == n = attempts - 1

\* A mutant of GiveUpError: LastErrorOnly is not set, all logged errors are returned.
GiveUpAllErrors(errorLog) == Join(errorLog)

\* retry.LastErrorOnly(true): the error returned when the loop gives up is
\* errorLog.Unwrap(), the last error logged.
GiveUpError(errorLog) == Last(errorLog)

\* A mutant of TimerWins: the wait between attempts does not look at the context.
TimerAlwaysWins(ctxErr) == TRUE

\* The select between two attempts: the timer case is taken only while the
\* context is not done.
TimerWins(ctxErr) == ctxErr = Nil

\* The entry check of DoWithData: config.context.Err() != nil.
EntryCtxDone(ctxErr) == ctxErr # Nil

\* What the inner resolver can answer: an address, NotFound, a temporary
\* failure of one of two servers, or the context's error once it is done.
RetryOutcomes(ctxErr) == InnerOutcomes(1, ctxErr) \cup {Fail(ServFail(2))}

\* LookupNetIP is entered: the entry check, then the first call of the inner resolver.
RetryCall ==
    /\ rPc = "idle"
    /\ rN' = 0 /\ rErrorLog' = <<>> /\ rCalls' = <<>>
    /\ IF EntryCtxDone(callerCtx)
       THEN rRet' = Fail(callerCtx) /\ rPc' = "done" /\ rStarted' = 0
       ELSE rRet' = NoRet /\ rPc' = "inflight" /\ rStarted' = 1
    /\ UNCHANGED <<rConf, ctxVars, seqVars, parVars>>
    /\ UNCHANGED moreVars

\* The inner resolver returns; DoWithData returns, or goes to wait for the next attempt.
RetryInner ==
    /\ rPc = "inflight"
    /\ \E out \in RetryOutcomes(callerCtx) :
        LET attempts == RetryAttempts(rConf)
            log == IF attempts = 0 THEN rErrorLog ELSE Append(rErrorLog, out.err)
        IN
        /\ rCalls' = Append(rCalls, out)
        /\ IF out.err = Nil
           THEN /\ rRet' = Ok(out.addrs) /\ rPc' = "done"
                /\ UNCHANGED <<rN, rErrorLog>>
           ELSE IF attempts = 0
           THEN /\ rErrorLog' = rErrorLog
                /\ IF ~RetryIf(out.err)
                   THEN rRet' = Fail(out.err) /\ rPc' = "done" /\ rN' = rN
                   ELSE rRet' = rRet /\ rPc' = "wait" /\ rN' = rN + 1
           ELSE /\ rErrorLog' = log
                /\ rN' = rN
                /\ IF ~RetryIf(out.err) \/ LastAttempt(rN, attempts)
                   THEN rRet' = Fail(GiveUpError(log)) /\ rPc' = "done"
                   ELSE rRet' = rRet /\ rPc' = "wait"
    /\ UNCHANGED <<rConf, rStarted, ctxVars, seqVars, parVars>>
    /\ UNCHANGED moreVars

\* The select between attempts takes <-ctx.Done(): the context's error is returned.
RetryWaitCtx ==
    /\ rPc = "wait"
    /\ ~TimerWins(callerCtx)
    /\ rRet' = Fail(callerCtx)
    /\ rPc' = "done"
    /\ UNCHANGED <<rConf, rN, rErrorLog, rCalls, rStarted, ctxVars, seqVars, parVars>>
    /\ UNCHANGED moreVars

\* The select between attempts takes the timer: n++ (bounded attempts), and the
\* loop calls the inner resolver again unless n has reached attempts.
RetryWaitTimer ==
    /\ rPc = "wait"
    /\ TimerWins(callerCtx)
    /\ rStarted < MaxCalls
    /\ LET attempts == RetryAttempts(rConf)
           n == IF attempts = 0 THEN rN ELSE rN + 1
       IN
       /\ rN' = n
       /\ IF attempts # 0 /\ ~(n < attempts)
          THEN rRet' = Fail(GiveUpError(rErrorLog)) /\ rPc' = "done" /\ rStarted' = rStarted
          ELSE rRet' = rRet /\ rPc' = "inflight" /\ rStarted' = rStarted + 1
    /\ UNCHANGED <<rConf, rErrorLog, rCalls, ctxVars, seqVars, parVars>>
    /\ UNCHANGED moreVars

\* The caller cancels the context, or its deadline passes.
RetryCancel ==
    /\ rPc # "done"
    /\ \E err \in CtxErrors : CancelCaller(err)
    /\ UNCHANGED <<derivedCtx, seqVars, parVars, retryVars>>
    /\ UNCHANGED moreVars

\* The caller is ready for its next call, with a fresh context.
RetryAgain ==
    /\ rPc = "done"
    /\ rPc' = "idle"
    /\ rN' = 0 /\ rErrorLog' = <<>> /\ rCalls' = <<>> /\ rStarted' = 0 /\ rRet' = NoRet
    /\ callerCtx' = Nil
    /\ UNCHANGED <<derivedCtx, rConf, seqVars, parVars>>
    /\ UNCHANGED moreVars

\* ================================================================ Relative
\* Two versions of relativeResolver.LookupNetIP are modelled: "RelativeJoin"
\* tests the trailing dot and returns the attempts' errors joined;
\* "RelativeFirstErr" decides on the dot count alone and returns the first error.
RelKinds == {"RelativeJoin", "RelativeFirstErr"}

\* A domain name is its labels and whether it is written with a trailing dot.
\* Labels are lower-case, so dns.CanonicalName's lower-casing leaves them alone.
DomainName(labels, rooted) == [labels |-> labels, rooted |-> rooted]

\* The number of octets of a label; "l63" stands for a label of 63 octets.
LabelLen(l) ==
    CASE l = "www" -> 3
      [] l = "com" -> 3
      [] l = "foobar" -> 6
      [] l = "example" -> 7
      [] l = "localhost" -> 9
      [] l = "2001:db8::10" -> 12
      [] l = "l63" -> 63
      [] l = "l64" -> 64

\* A mutant of IsDomainName: every text passes for a domain name.
IsDomainNameAlways(name) == TRUE

\* dns.IsDomainName: a label has at most 63 octets, and the labels with their
\* length octets fit in lenmsg.
MaxLabelOctets == 63
lenmsg == 256

RECURSIVE PackedLen(_)
PackedLen(labels) ==
    IF labels = <<>> THEN 0 ELSE 1 + LabelLen(Head(labels)) + PackedLen(Tail(labels))

IsDomainName(name) ==
    /\ \A i \in 1..Len(name.labels) : LabelLen(name.labels[i]) <= MaxLabelOctets
    /\ PackedLen(name.labels) <= lenmsg

\* strings.Count(host, "."): the dots between labels and the trailing one.
CountDots(host) ==
    (IF host.labels = <<>> THEN 0 ELSE Len(host.labels) - 1)
    + (IF host.rooted THEN 1 ELSE 0)

\* strings.HasSuffix(host, ".")
HasDotSuffix(host) == host.rooted

\* dns.Fqdn: the name with a trailing dot.
Fqdn(host) == DomainName(host.labels, TRUE)

\* util.Join: the labels of both, as one canonical (rooted) name.
JoinNames(host, domain) == DomainName(host.labels \o domain.labels, TRUE)

\* The hosts looked up and the suffixes a search list is made of.
RelHosts ==
    {DomainName(<<"www">>, FALSE), DomainName(<<"www">>, TRUE),
     DomainName(<<"www", "foobar", "com">>, FALSE)}
RelSuffixes ==
    {DomainName(<<"example", "com">>, TRUE), DomainName(<<>>, TRUE),
     DomainName(<<"l63", "l63", "l63", "l63">>, TRUE)}

RECURSIVE SeqsUpTo(_, _)
SeqsUpTo(S, n) ==
    IF n = 0 THEN {<<>>}
    ELSE SeqsUpTo(S, n - 1) \cup
         {Append(s, x) : s \in {t \in SeqsUpTo(S, n - 1) : Len(t) = n - 1}, x \in S}

\* Whether the search list is applied to the host.
RelSearches(kind, host, ndots) ==
    IF kind = "RelativeJoin"
    THEN ~HasDotSuffix(host) /\ CountDots(host) < ndots
    ELSE CountDots(host) < ndots

\* names: the candidates, in the order they are tried.
RelNames(kind, host, search, ndots) ==
    IF RelSearches(kind, host, ndots)
    THEN SelectSeq([i \in 1..Len(search) |-> JoinNames(host, search[i])], IsDomainName)
    ELSE <<Fqdn(host)>>

\* A mutant of RelNoteErr: only the latest error is kept.
RelNoteLastErr(kind, errs, err) == <<err>>

\* The bookkeeping of a failed attempt: errs grows, or firstErr is set once.
RelNoteErr(kind, errs, err) ==
    IF kind = "RelativeFirstErr"
    THEN (IF errs = <<>> THEN <<err>> ELSE errs)
    ELSE Append(errs, err)

\* The return after the loop.
RelFinal(kind, errs) ==
    IF kind = "RelativeFirstErr"
    THEN (IF errs # <<>> THEN Fail(errs[1]) ELSE Fail(SynthesizedNotFound))
    ELSE Fail(Join(errs))

RelIdle ==
    /\ rlPc = "idle" /\ rlHost = DomainName(<<>>, TRUE) /\ rlNames = <<>> /\ rlI = 0
    /\ rlErrs = <<>> /\ rlCalls = <<>> /\ rlRet = NoRet

\* LookupNetIP is entered with some host: the candidate names are computed.
RelCall ==
    /\ rlPc = "idle"
    /\ \E host \in RelHosts :
         /\ rlHost' = host
         /\ rlNames' = RelNames(rlKind, host, rlSearch, rlNdots)
    /\ rlPc' = "loop"
    /\ rlI' = 0 /\ rlErrs' = <<>> /\ rlCalls' = <<>> /\ rlRet' = NoRet
    /\ UNCHANGED <<rlKind, rlSearch, rlNdots>>
    /\ UNCHANGED notRelVars

\* One iteration: the inner resolver is asked for the next name.
RelTry ==
    /\ rlPc = "loop"
    /\ rlI < Len(rlNames)
    /\ \E out \in MockOutcomes(1) :
         /\ rlCalls' = Append(rlCalls, <<rlNames[rlI + 1], out>>)
         /\ rlI' = rlI + 1
         /\ IF out.err = Nil
            THEN /\ rlRet' = Ok(out.addrs)
                 /\ rlPc' = "done"
                 /\ rlErrs' = rlErrs
            ELSE /\ rlErrs' = RelNoteErr(rlKind, rlErrs, out.err)
                 /\ UNCHANGED <<rlRet, rlPc>>
    /\ UNCHANGED <<rlKind, rlSearch, rlNdots, rlHost, rlNames>>
    /\ UNCHANGED notRelVars

\* The loop is over without a success.
RelExhausted ==
    /\ rlPc = "loop"
    /\ rlI >= Len(rlNames)
    /\ rlRet' = RelFinal(rlKind, rlErrs)
    /\ rlPc' = "done"
    /\ UNCHANGED <<rlKind, rlSearch, rlNdots, rlHost, rlNames, rlI, rlErrs, rlCalls>>
    /\ UNCHANGED notRelVars

\* The caller is ready for its next call.
RelAgain ==
    /\ rlPc = "done"
    /\ rlPc' = "idle"
    /\ UNCHANGED <<rlKind, rlSearch, rlNdots, rlHost, rlNames, rlI, rlErrs, rlCalls,
                   rlRet>>
    /\ UNCHANGED notRelVars

\* =============================================================== addresses
\* A netip.Addr is its bytes: four for IPv4, sixteen for IPv6.
Is4(a) == Len(a) = 4
Is6(a) == Len(a) = 16

\* The first twelve bytes of an IPv4-mapped IPv6 address, ::ffff:0:0/96.
V4InV6Prefix == <<0, 0, 0, 0, 0, 0, 0, 0, 0, 0, 255, 255>>
Is4In6(a) == Is6(a) /\ SubSeq(a, 1, 12) = V4InV6Prefix

\* netip.Addr.Unmap: an IPv4-mapped IPv6 address becomes the IPv4 address.
Unmap(a) == IF Is4In6(a) THEN SubSeq(a, 13, 16) ELSE a

\* netip.Addr.As16
As16(a) == IF Is4(a) THEN V4InV6Prefix \o a ELSE a

\* The addresses the inner resolvers and the hosts table hold.
Addr4a == <<10, 0, 0, 1>>
Addr4b == <<192, 0, 2, 33>>
Addr6a == <<32, 1, 13, 184, 0, 0, 0, 0, 0, 0, 0, 0, 0, 0, 0, 16>>
Addr6LinkLocal == <<254, 128, 0, 0, 0, 0, 0, 0, 0, 0, 0, 0, 0, 0, 0, 1>>
Addr4aMapped == V4InV6Prefix \o Addr4a

\* The local addresses a probe connection can turn out to use.
Src4 == <<10, 0, 0, 2>>
Src6 == <<32, 1, 13, 184, 0, 0, 0, 0, 0, 0, 0, 0, 0, 0, 0, 1>>
Src6LinkLocal == <<254, 128, 0, 0, 0, 0, 0, 0, 0, 0, 0, 0, 0, 0, 0, 2>>
\* The probe found no usable source address (the dial failed).
NoSource == <<>>

\* What probing a destination can yield: no source, or a source of its family.
SourcesFor(a) ==
    {NoSource} \cup (IF Is4(Unmap(a)) THEN {Src4} ELSE {Src6, Src6LinkLocal})

\* Every outcome of probing each address of a list.
Probes(addrs) == {f \in [Range(addrs) -> {NoSource, Src4, Src6, Src6LinkLocal}] :
                     \A a \in Range(addrs) : f[a] \in SourcesFor(a)}

\* ------------------------------------------------ RFC 6724 classification
\* The number of leading bits two bytes share.
CommonBits(x, y) ==
    CHOOSE k \in 0..8 :
        /\ x \div (2 ^ (8 - k)) = y \div (2 ^ (8 - k))
        /\ \A j \in (k + 1)..8 : x \div (2 ^ (8 - j)) # y \div (2 ^ (8 - j))

\* commonPrefixLen: the number of leading bits two 16-byte addresses share.
RECURSIVE CommonPrefixFrom(_, _, _)
CommonPrefixFrom(a, b, i) ==
    IF i > 16 THEN 0
    ELSE IF a[i] = b[i] THEN 8 + CommonPrefixFrom(a, b, i + 1)
    ELSE CommonBits(a[i], b[i])
commonPrefixLen(a, b) == CommonPrefixFrom(As16(a), As16(b), 1)

PolicyEntry(prefix, bits, precedence, label) ==
    [prefix |-> prefix, bits |-> bits, precedence |-> precedence, label |-> label]
Zeros(n) == [i \in 1..n |-> 0]

\* The policy table of RFC 6724, section 2.1, longest prefix first.
rfc6724policyTable == <<
    PolicyEntry(Zeros(15) \o <<1>>, 128, 50, 0),
    PolicyEntry(V4InV6Prefix \o Zeros(4), 96, 35, 4),
    PolicyEntry(Zeros(16), 96, 1, 3),
    PolicyEntry(<<32, 1>> \o Zeros(14), 32, 5, 5),
    PolicyEntry(<<32, 2>> \o Zeros(14), 16, 30, 2),
    PolicyEntry(<<63, 254>> \o Zeros(14), 16, 1, 12),
    PolicyEntry(<<254, 192>> \o Zeros(14), 10, 1, 11),
    PolicyEntry(<<252>> \o Zeros(15), 7, 3, 13),
    PolicyEntry(Zeros(16), 0, 40, 1) >>

\* Whether the address lies in the prefix of a table entry.
InPrefix(a, e) ==
    LET n == e.bits \div 8
        rest == 2 ^ (8 - (e.bits % 8))
    IN  /\ SubSeq(As16(a), 1, n) = SubSeq(e.prefix, 1, n)
        /\ (e.bits % 8 = 0) \/ (As16(a)[n + 1] \div rest = e.prefix[n + 1] \div rest)

\* The first (longest) entry of the table that holds the address.
Classify(a) == SelectSeq(rfc6724policyTable, LAMBDA e : InPrefix(a, e))[1]

scopeLinkLocal == 2
scopeSiteLocal == 5
scopeGlobal == 14

\* classifyScope
classifyScope(a) ==
    LET b == As16(a) IN
    IF Is4(Unmap(a))
    THEN (IF Unmap(a)[1] = 127 \/ (Unmap(a)[1] = 169 /\ Unmap(a)[2] = 254)
          THEN scopeLinkLocal ELSE scopeGlobal)
    ELSE IF b = Zeros(15) \o <<1>> \/ (b[1] = 254 /\ b[2] \div 64 = 2) THEN scopeLinkLocal
    ELSE IF b[1] = 255 THEN b[2] % 16
    ELSE IF b[1] = 254 /\ b[2] \div 64 = 3 THEN scopeSiteLocal
    ELSE scopeGlobal

\* Labels of protocol-translated addresses: 6to4 and Teredo.
TranslatedLabels == {2, 5}

\* ipAttrOf
ipAttrOf(a) ==
    [scope |-> classifyScope(a), precedence |-> Classify(a).precedence,
     label |-> Classify(a).label]

\* ------------------------------------------------------- the comparator
\* The rule that decides between destinations a and b (with sources sa, sb)
\* and whether it prefers a; rule 0 means no rule prefers either.
Decision(a, sa, b, sb) ==
    LET da == ipAttrOf(a)
        db == ipAttrOf(b)
        ua == sa # NoSource
        ub == sb # NoSource
        scopeA == ua /\ ipAttrOf(sa).scope = da.scope
        scopeB == ub /\ ipAttrOf(sb).scope = db.scope
        labelA == ua /\ ipAttrOf(sa).label = da.label
        labelB == ub /\ ipAttrOf(sb).label = db.label
        nativeA == da.label \notin TranslatedLabels
        nativeB == db.label \notin TranslatedLabels
    IN  CASE ~ua /\ ~ub -> [rule |-> 0, preferA |-> FALSE]
          [] ua # ub -> [rule |-> 1, preferA |-> ua]
          [] scopeA # scopeB -> [rule |-> 2, preferA |-> scopeA]
          [] labelA # labelB -> [rule |-> 3, preferA |-> labelA]
          [] da.scope # db.scope -> [rule |-> 4, preferA |-> da.scope < db.scope]
          [] da.precedence # db.precedence ->
                [rule |-> 5, preferA |-> da.precedence > db.precedence]
          [] nativeA # nativeB -> [rule |-> 6, preferA |-> nativeA]
          [] /\ da.label = db.label
             /\ commonPrefixLen(sa, a) # commonPrefixLen(sb, b) ->
                [rule |-> 7, preferA |-> commonPrefixLen(sa, a) > commonPrefixLen(sb, b)]
          [] OTHER -> [rule |-> 0, preferA |-> FALSE]

\* byRFC6724.Less: a is to come before b.
Less(srcs, a, b) == Decision(a, srcs[a], b, srcs[b]).preferA

\* A mutant of MovesPast: an element also moves past the neighbours it ties with.
MovesPastTies(srcs, a, b) == ~Less(srcs, b, a)

\* sort.Stable's test for moving an element to the left of its neighbour.
MovesPast(srcs, a, b) == Less(srcs, a, b)

\* sort.Stable (an insertion sort for lists this short): the element at input
\* position i moves left past every neighbour it is Less than.  The result is
\* the sequence of input positions in their final order.
RECURSIVE InsertStable(_, _, _, _)
InsertStable(srcs, addrs, perm, i) ==
    IF perm = <<>> \/ ~MovesPast(srcs, addrs[i], addrs[Last(perm)])
    THEN Append(perm, i)
    ELSE Append(InsertStable(srcs, addrs, SubSeq(perm, 1, Len(perm) - 1), i), Last(perm))

RECURSIVE SortedPerm(_, _, _)
SortedPerm(srcs, addrs, n) ==
    IF n = 0 THEN <<>>
    ELSE InsertStable(srcs, addrs, SortedPerm(srcs, addrs, n - 1), n)

SortPerm(srcs, addrs) == SortedPerm(srcs, addrs, Len(addrs))

\* addrselect.SortByRFC6724 with the probe results srcs: addrs, reordered.
SortByRFC6724(srcs, addrs) ==
    [k \in 1..Len(addrs) |-> addrs[SortPerm(srcs, addrs)[k]]]

\* ===================================================== the sort on its own
\* The addresses that lists to sort are made of.
SortUniverse == {Addr4a, Addr4b, Addr6a, Addr6LinkLocal, Addr4aMapped}

SortIdle ==
    /\ soPc = "idle" /\ soSrcs = <<>> /\ soPerm = <<>> /\ soOnce = <<>> /\ soTwice = <<>>

\* SortByRFC6724(dial, addrs): every address is probed, then the list is sorted.
SortOnce ==
    /\ soPc = "idle"
    /\ \E srcs \in Probes(soAddrs) :
         /\ soSrcs' = srcs
         /\ soPerm' = SortPerm(srcs, soAddrs)
         /\ soOnce' = [k \in 1..Len(soAddrs) |-> soAddrs[soPerm'[k]]]
    /\ soPc' = "once"
    /\ UNCHANGED <<soAddrs, soTwice>>
    /\ UNCHANGED notSortVars

\* The sorted list is sorted again; the probes answer as before.
SortTwice ==
    /\ soPc = "once"
    /\ soTwice' = SortByRFC6724(soSrcs, soOnce)
    /\ soPc' = "twice"
    /\ UNCHANGED <<soAddrs, soSrcs, soPerm, soOnce>>
    /\ UNCHANGED notSortVars

\* =================================================================== DNS64
Networks == {"ip", "ip4", "ip6"}

\* netip.MustParsePrefix("64:ff9b::/96"), and a prefix of the operator's own;
\* a prefix is the sixteen bytes of Prefix.Addr().
WellKnownPrefix == <<0, 100, 255, 155>> \o Zeros(12)
OtherPrefix == <<32, 1, 13, 184, 0, 100, 0, 0, 0, 0, 0, 0, 0, 0, 0, 0>>
D64NilConf == <<>>

\* DNS64(resolver, conf): the prefix of the configuration, the well-known one
\* when none is given.
D64Prefix(conf) == IF conf = D64NilConf THEN WellKnownPrefix ELSE conf

\* The addresses an inner resolver's answer is made of.
InnerUniverse == {Addr4a, Addr4b, Addr6a, Addr4aMapped}
InnerAnswers ==
    {Ok(l) : l \in SeqsUpTo(InnerUniverse, MaxInnerAddrs)}
    \cup {Fail(NotFound(1)), Fail(ServFail(1))}

\* A mutant of D64InnerNetwork: the caller's network is handed on.
D64InnerNetworkSame(network) == network

\* The network the inner resolver is asked for.
D64InnerNetwork(network) == "ip"

\* ipv4Addrs and ipv6Addrs: the partition of the inner result.
D64IPv4Addrs(addrs) ==
    LET v4 == SelectSeq(addrs, LAMBDA a : Is4(Unmap(a)))
    IN  [i \in 1..Len(v4) |-> Unmap(v4[i])]
D64IPv6Addrs(addrs) == SelectSeq(addrs, LAMBDA a : ~Is4(Unmap(a)))

\* A mutant of synthesizeAddr: the IPv4-mapped form instead of the prefix.
synthesizeAddrMapped(prefix, addr) == V4InV6Prefix \o Unmap(addr)

\* synthesizeAddr: bytes 0..11 of the prefix, then the four bytes of the address.
synthesizeAddr(prefix, addr) ==
    IF ~Is4(Unmap(addr)) THEN Unmap(addr)
    ELSE SubSeq(prefix, 1, 12) \o Unmap(addr)

\* A mutant of D64Synthesizes: addresses are synthesized in every case.
D64SynthesizesAlways(ipv6Addrs) == TRUE

\* Whether addresses are synthesized: only when there is no IPv6 address.
D64Synthesizes(ipv6Addrs) == Len(ipv6Addrs) = 0

\* ipv6Addrs after the synthesis step.
D64WithSynthesized(prefix, addrs) ==
    IF D64Synthesizes(D64IPv6Addrs(addrs))
    THEN D64IPv6Addrs(addrs)
         \o [i \in 1..Len(D64IPv4Addrs(addrs)) |->
                synthesizeAddr(prefix, D64IPv4Addrs(addrs)[i])]
    ELSE D64IPv6Addrs(addrs)

\* The list that is sorted and returned for "ip6" and "ip".
D64Selected(prefix, network, addrs) ==
    IF network = "ip6" THEN D64WithSynthesized(prefix, addrs)
    ELSE D64IPv4Addrs(addrs) \o D64WithSynthesized(prefix, addrs)

D64Idle ==
    /\ dPc = "idle" /\ dNetwork = "ip" /\ dInnerNetwork = "" /\ dInner = NoRet
    /\ dSrcs = <<>> /\ dRet = NoRet

\* LookupNetIP is entered and the inner resolver is invoked.
D64Call ==
    /\ dPc = "idle"
    /\ \E network \in Networks :
         /\ dNetwork' = network
         /\ dInnerNetwork' = D64InnerNetwork(network)
    /\ dPc' = "inner"
    /\ dInner' = NoRet /\ dSrcs' = <<>> /\ dRet' = NoRet
    /\ UNCHANGED dConf
    /\ UNCHANGED notD64Vars

\* The inner resolver answers; its error is returned as it is.
D64Inner ==
    /\ dPc = "inner"
    /\ \E out \in InnerAnswers :
         /\ dInner' = out
         /\ IF out.err # Nil
            THEN dRet' = Fail(out.err) /\ dPc' = "done"
            ELSE dRet' = dRet /\ dPc' = "partitioned"
    /\ UNCHANGED <<dConf, dNetwork, dInnerNetwork, dSrcs>>
    /\ UNCHANGED notD64Vars

\* For "ip4" the IPv4 addresses are returned as they are.
D64ReturnIPv4 ==
    /\ dPc = "partitioned"
    /\ dNetwork = "ip4"
    /\ dRet' = Ok(D64IPv4Addrs(dInner.addrs))
    /\ dPc' = "done"
    /\ UNCHANGED <<dConf, dNetwork, dInnerNetwork, dInner, dSrcs>>
    /\ UNCHANGED notD64Vars

\* Otherwise addresses are synthesized if need be, sorted and returned.
D64ReturnSorted ==
    /\ dPc = "partitioned"
    /\ dNetwork # "ip4"
    /\ LET addrs == D64Selected(D64Prefix(dConf), dNetwork, dInner.addrs) IN
         \E srcs \in Probes(addrs) :
            /\ dSrcs' = srcs
            /\ dRet' = Ok(SortByRFC6724(srcs, addrs))
    /\ dPc' = "done"
    /\ UNCHANGED <<dConf, dNetwork, dInnerNetwork, dInner>>
    /\ UNCHANGED notD64Vars

\* The caller is ready for its next call.
D64Again ==
    /\ dPc = "done"
    /\ dPc' = "idle"
    /\ dNetwork' = "ip" /\ dInnerNetwork' = "" /\ dInner' = NoRet
    /\ dSrcs' = <<>> /\ dRet' = NoRet
    /\ UNCHANGED dConf
    /\ UNCHANGED notD64Vars

\* ======================================================== PreferredAddress
\* A mutant of PaSorts: the list is sorted for every network.
PaSortsAlways(network, addrs) == TRUE

\* Whether the result is sorted.
PaSorts(network, addrs) == network # "ip4" /\ Len(addrs) > 0

PaIdle ==
    /\ paPc = "idle" /\ paNetwork = "ip" /\ paInner = NoRet /\ paSrcs = <<>>
    /\ paRet = NoRet

\* LookupNetIP is entered and the inner resolver is invoked.
PaCall ==
    /\ paPc = "idle"
    /\ paNetwork' \in Networks
    /\ paPc' = "inner"
    /\ paInner' = NoRet /\ paSrcs' = <<>> /\ paRet' = NoRet
    /\ UNCHANGED notPaVars

\* The inner resolver answers; its error is returned as it is.
PaInner ==
    /\ paPc = "inner"
    /\ \E out \in InnerAnswers :
         /\ paInner' = out
         /\ IF out.err # Nil
            THEN paRet' = Fail(out.err) /\ paPc' = "done"
            ELSE paRet' = paRet /\ paPc' = "answered"
    /\ UNCHANGED <<paNetwork, paSrcs>>
    /\ UNCHANGED notPaVars

\* The addresses are probed and sorted, then returned.
PaReturnSorted ==
    /\ paPc = "answered"
    /\ PaSorts(paNetwork, paInner.addrs)
    /\ \E srcs \in Probes(paInner.addrs) :
         /\ paSrcs' = srcs
         /\ paRet' = Ok(SortByRFC6724(srcs, paInner.addrs))
    /\ paPc' = "done"
    /\ UNCHANGED <<paNetwork, paInner>>
    /\ UNCHANGED notPaVars

\* The addresses are returned as the inner resolver gave them.
PaReturnAsIs ==
    /\ paPc = "answered"
    /\ ~PaSorts(paNetwork, paInner.addrs)
    /\ paRet' = Ok(paInner.addrs)
    /\ paPc' = "done"
    /\ UNCHANGED <<paNetwork, paInner, paSrcs>>
    /\ UNCHANGED notPaVars

\* The caller is ready for its next call.
PaAgain ==
    /\ paPc = "done"
    /\ paPc' = "idle"
    /\ paNetwork' = "ip" /\ paInner' = NoRet /\ paSrcs' = <<>> /\ paRet' = NoRet
    /\ UNCHANGED notPaVars

\* =================================================================== Hosts
\* HostsResolver: a table from fully-qualified names to address lists behind
\* a sync.RWMutex.  Callers run concurrently; each is idle or inside one of
\* AddHost, RemoveHost and LookupNetIP.
HostsCallers == {1, 2}

\* The host arguments: one name written without and with its trailing dot,
\* and another name.
HostApi == DomainName(<<"api2", "local">>, FALSE)
HostApiDot == DomainName(<<"api2", "local">>, TRUE)
HostOther == DomainName(<<"other", "local">>, FALSE)
HostsHosts == {HostApi, HostApiDot, HostOther}
\* The hosts that are looked up.
HostsLookedUp == {HostApi, HostApiDot}

\* A mutant of HostsKey: the table is keyed by the host as it is written.
HostsKeyAsGiven(host) == host

\* The key of a host in nameToAddr: dns.Fqdn(host).
HostsKey(host) == Fqdn(host)
HostsKeys == {HostsKey(h) : h \in HostsHosts}
\* The names the log of writes is kept for.
HostsNames == {Fqdn(h) : h \in HostsHosts}

\* nameToAddr holds no entry for the name.
Absent == [ok |-> FALSE, addrs |-> <<>>]
Entry(addrs) == [ok |-> TRUE, addrs |-> addrs]
\* The entry while a map assignment or delete is under way: the statement is
\* not atomic, and a read that overlaps it is a data race that may see this.
Torn == [ok |-> TRUE, addrs |-> <<>>, torn |-> TRUE]

\* The address lists AddHost is called with, and the list a hosts file gives.
HostsAddrLists == {<<Addr4a>>, <<Addr4a, Addr6a>>}
HostsFileAddrs == <<Addr4b>>

ErrUnsupportedNetwork == "unsupported network"
HostsNetworks == Networks \cup {"udp"}

\* addresses.FilterByNetwork: the addresses of the requested family.
FilterByNetwork(addrs, network) ==
    CASE network = "ip" -> addrs
      [] network = "ip4" ->
            LET v4 == SelectSeq(addrs, LAMBDA a : Is4(Unmap(a)))
            IN  [i \in 1..Len(v4) |-> Unmap(v4[i])]
      [] network = "ip6" -> SelectSeq(addrs, Is6)
      [] OTHER -> <<>>

\* What LookupNetIP returns for the entry it read, without the ordering: an
\* error, or the filtered list.
HostsAnswer(got, network) ==
    IF ~got.ok THEN Fail(SynthesizedNotFound)
    ELSE IF network \notin Networks
    THEN Fail(DNSError(ErrUnsupportedNetwork, 0, FALSE, FALSE))
    ELSE Ok(FilterByNetwork(got.addrs, network))

\* nameToAddr after r.nameToAddr[dns.Fqdn(host)] = addrs.
HostsAdded(table, key, addrs) == [table EXCEPT ![key] = Entry(addrs)]

\* A mutant of HostsRemoved: the entry read from the hosts file comes back.
HostsRemovedToStatic(table, key) ==
    [table EXCEPT ![key] = IF key = HostsKey(HostApi) THEN Entry(HostsFileAddrs) ELSE Absent]

\* nameToAddr after delete(r.nameToAddr, dns.Fqdn(host)).
HostsRemoved(table, key) == [table EXCEPT ![key] = Absent]

\* A caller outside every method.
HostsIdleCaller ==
    [op |-> "none", pc |-> "idle", host |-> HostApi, network |-> "ip", addrs |-> <<>>,
     got |-> Absent, disturbed |-> FALSE, ret |-> NoRet]

\* r.mu: the writer holding it (0 when none) and the readers holding it.
MuFree == [writer |-> 0, readers |-> {}]

\* sync.RWMutex: Lock is granted when nobody holds the mutex.
LockGranted(mu) == mu = MuFree

\* A mutant of RLockGranted: readers do not wait for the writer.
RLockGrantedAlways(mu) == TRUE

\* sync.RWMutex: RLock is granted when no writer holds the mutex.
RLockGranted(mu) == mu.writer = 0


\* A caller enters AddHost, RemoveHost or LookupNetIP.
HostsBegin(t) ==
    /\ hCaller[t].pc = "idle"
    /\ \E host \in HostsHosts :
         \/ \E addrs \in HostsAddrLists :
               hCaller' = [hCaller EXCEPT ![t] =
                   [HostsIdleCaller EXCEPT !.op = "AddHost", !.pc = "Lock",
                                           !.host = host, !.addrs = addrs]]
         \/ hCaller' = [hCaller EXCEPT ![t] =
                   [HostsIdleCaller EXCEPT !.op = "RemoveHost", !.pc = "Lock",
                                           !.host = host]]
         \/ \E network \in HostsNetworks :
               /\ host \in HostsLookedUp
               /\ hCaller' = [hCaller EXCEPT ![t] =
                   [HostsIdleCaller EXCEPT !.op = "LookupNetIP", !.pc = "RLock",
                                           !.host = host, !.network = network]]
    /\ UNCHANGED <<hTable, hMu, hLast>>
    /\ UNCHANGED notHostsVars

\* r.mu.Lock(): granted when nobody holds the mutex.
HostsLock(t) ==
    /\ hCaller[t].pc = "Lock"
    /\ LockGranted(hMu)
    /\ hMu' = [hMu EXCEPT !.writer = t]
    /\ hCaller' = [hCaller EXCEPT ![t].pc = "write"]
    /\ UNCHANGED <<hTable, hLast>>
    /\ UNCHANGED notHostsVars

\* The statement under the write lock begins: the map is being changed.
HostsWriteBegin(t) ==
    /\ hCaller[t].pc = "write"
    /\ hTable' = [hTable EXCEPT ![HostsKey(hCaller[t].host)] = Torn]
    /\ hCaller' = [hCaller EXCEPT ![t].pc = "writing"]
    /\ UNCHANGED <<hMu, hLast>>
    /\ UNCHANGED notHostsVars

\* The statement under the write lock ends: the entry is set or deleted.
\* Lookups of that name that are under way are noted as overtaken.
HostsWrite(t) ==
    /\ hCaller[t].pc = "writing"
    /\ LET key == HostsKey(hCaller[t].host)
           c == hCaller[t]
       IN  /\ hTable' = IF c.op = "AddHost" THEN HostsAdded(hTable, key, c.addrs)
                        ELSE HostsRemoved(hTable, key)
           /\ hLast' = [hLast EXCEPT ![Fqdn(c.host)] =
                           IF c.op = "AddHost" THEN [op |-> "AddHost", addrs |-> c.addrs]
                           ELSE [op |-> "RemoveHost", addrs |-> <<>>]]
           /\ hCaller' = [u \in HostsCallers |->
                   IF u = t THEN [c EXCEPT !.pc = "Unlock"]
                   ELSE IF hCaller[u].op = "LookupNetIP" /\ Fqdn(hCaller[u].host) = Fqdn(c.host)
                   THEN [hCaller[u] EXCEPT !.disturbed = TRUE]
                   ELSE hCaller[u]]
    /\ UNCHANGED hMu
    /\ UNCHANGED notHostsVars

\* r.mu.Unlock(): AddHost or RemoveHost returns.
HostsUnlock(t) ==
    /\ hCaller[t].pc = "Unlock"
    /\ hMu' = [hMu EXCEPT !.writer = 0]
    /\ hCaller' = [hCaller EXCEPT ![t].pc = "done"]
    /\ UNCHANGED <<hTable, hLast>>
    /\ UNCHANGED notHostsVars

\* r.mu.RLock(): granted when no writer holds the mutex.
HostsRLock(t) ==
    /\ hCaller[t].pc = "RLock"
    /\ RLockGranted(hMu)
    /\ hMu' = [hMu EXCEPT !.readers = @ \cup {t}]
    /\ hCaller' = [hCaller EXCEPT ![t].pc = "read"]
    /\ UNCHANGED <<hTable, hLast>>
    /\ UNCHANGED notHostsVars

\* addrs, ok := r.nameToAddr[dns.Fqdn(host)]
HostsRead(t) ==
    /\ hCaller[t].pc = "read"
    /\ hCaller' = [hCaller EXCEPT ![t].got = hTable[HostsKey(hCaller[t].host)],
                                  ![t].pc = "RUnlock"]
    /\ UNCHANGED <<hTable, hMu, hLast>>
    /\ UNCHANGED notHostsVars

\* r.mu.RUnlock()
HostsRUnlock(t) ==
    /\ hCaller[t].pc = "RUnlock"
    /\ hMu' = [hMu EXCEPT !.readers = @ \ {t}]
    /\ hCaller' = [hCaller EXCEPT ![t].pc = "answer"]
    /\ UNCHANGED <<hTable, hLast>>
    /\ UNCHANGED notHostsVars

\* The rest of LookupNetIP: not found, unsupported network, or the filtered
\* list, sorted unless the network is "ip4" or the list is empty.
HostsReturn(t) ==
    /\ hCaller[t].pc = "answer"
    /\ LET ans == HostsAnswer(hCaller[t].got, hCaller[t].network) IN
         IF ans.err = Nil /\ PaSorts(hCaller[t].network, ans.addrs)
         THEN \E srcs \in Probes(ans.addrs) :
                 hCaller' = [hCaller EXCEPT ![t].ret = Ok(SortByRFC6724(srcs, ans.addrs)),
                                            ![t].pc = "done"]
         ELSE hCaller' = [hCaller EXCEPT ![t].ret = ans, ![t].pc = "done"]
    /\ UNCHANGED <<hTable, hMu, hLast>>
    /\ UNCHANGED notHostsVars

\* The caller has its result and is free for another call.
HostsFinish(t) ==
    /\ hCaller[t].pc = "done"
    /\ hCaller' = [hCaller EXCEPT ![t] = HostsIdleCaller]
    /\ UNCHANGED <<hTable, hMu, hLast>>
    /\ UNCHANGED notHostsVars

\* ================================================================= Literal
\* literalResolver: IP literals and localhost, without any I/O.  The host is a
\* text, held as its dot-separated pieces and whether a dot ends it.
Localhost == DomainName(<<"localhost">>, FALSE)
LocalhostDot == DomainName(<<"localhost">>, TRUE)
LitHosts ==
    {Localhost, LocalhostDot, DomainName(<<"LOCALHOST">>, FALSE),
     DomainName(<<"10", "0", "0", "1">>, FALSE),
     DomainName(<<"10", "0", "0", "1">>, TRUE),
     DomainName(<<"10", "0", "0", "256">>, FALSE),
     DomainName(<<"2001:db8::10">>, FALSE),
     DomainName(<<"::ffff:10", "0", "0", "1">>, FALSE),
     DomainName(<<"example", "com">>, FALSE)}

\* netip.IPv6Loopback() and netip.MustParseAddr("127.0.0.1")
IPv6Loopback == <<0, 0, 0, 0, 0, 0, 0, 0, 0, 0, 0, 0, 0, 0, 0, 1>>
Loopback4 == <<127, 0, 0, 1>>

\* The value of a decimal field of an IPv4 text, -1 when it is none.
DecimalField(s) ==
    CASE s = "0" -> 0
      [] s = "1" -> 1
      [] s = "10" -> 10
      [] s = "256" -> 256
      [] OTHER -> -1

\* netip.ParseAddr: four decimal fields of at most 255 make an IPv4 address;
\* a text with colons is an IPv6 address, with an IPv4 tail when it has dots;
\* everything else, a text that ends in a dot included, is an error.
ParseAddr(host) ==
    LET l == host.labels
        fail == [ok |-> FALSE, addr |-> <<>>]
    IN  IF host.rooted THEN fail
        ELSE IF l = <<"2001:db8::10">> THEN [ok |-> TRUE, addr |-> Addr6a]
        ELSE IF Len(l) # 4 THEN fail
        ELSE IF \A i \in 1..4 : DecimalField(l[i]) \in 0..255
        THEN [ok |-> TRUE, addr |-> [i \in 1..4 |-> DecimalField(l[i])]]
        ELSE IF l[1] = "::ffff:10" /\ \A i \in 2..4 : DecimalField(l[i]) \in 0..255
        THEN [ok |-> TRUE,
              addr |-> V4InV6Prefix \o <<10>> \o [i \in 1..3 |-> DecimalField(l[i + 1])]]
        ELSE fail

\* A mutant of LitIsLocalhost: the host is compared as it is written.
LitIsLocalhostAsGiven(host) == host = LocalhostDot

\* dns.Fqdn(host) == "localhost."
LitIsLocalhost(host) == Fqdn(host) = LocalhostDot

LitIdle ==
    /\ litPc = "idle" /\ litHost = Localhost /\ litNetwork = "ip"
    /\ litAddrs = <<>> /\ litRound = 0 /\ litOnce = NoRet /\ litRet = NoRet

\* LookupNetIP is entered: var addrs []netip.Addr
LitCall ==
    /\ litPc = "idle"
    /\ litHost' \in LitHosts
    /\ litNetwork' \in HostsNetworks
    /\ litPc' = "localhost" /\ litRound' = 1 /\ litAddrs' = <<>>
    /\ UNCHANGED <<litOnce, litRet>>
    /\ UNCHANGED notLitVars

\* if dns.Fqdn(host) == "localhost." { addrs = [::1, 127.0.0.1] }
LitLocalhost ==
    /\ litPc = "localhost"
    /\ litAddrs' = IF LitIsLocalhost(litHost) THEN <<IPv6Loopback, Loopback4>> ELSE litAddrs
    /\ litPc' = "parse"
    /\ UNCHANGED <<litHost, litNetwork, litRound, litOnce, litRet>>
    /\ UNCHANGED notLitVars

\* if addr, err := netip.ParseAddr(host); err == nil { addrs = [addr] }
LitParse ==
    /\ litPc = "parse"
    /\ litAddrs' = IF ParseAddr(litHost).ok THEN <<ParseAddr(litHost).addr>> ELSE litAddrs
    /\ litPc' = "network"
    /\ UNCHANGED <<litHost, litNetwork, litRound, litOnce, litRet>>
    /\ UNCHANGED notLitVars

\* The network is checked: an unsupported one ends the call with an error.
LitNetwork ==
    /\ litPc = "network"
    /\ IF litNetwork \notin Networks
       THEN /\ litRet' = Fail(DNSError(ErrUnsupportedNetwork, 0, FALSE, FALSE))
            /\ litPc' = "done"
       ELSE /\ litPc' = "filter"
            /\ UNCHANGED litRet
    /\ UNCHANGED <<litHost, litNetwork, litAddrs, litRound, litOnce>>
    /\ UNCHANGED notLitVars

\* addrs = address.FilterByNetwork(addrs, network); none left is not found.
LitFilter ==
    /\ litPc = "filter"
    /\ litAddrs' = FilterByNetwork(litAddrs, litNetwork)
    /\ litRet' = IF litAddrs' = <<>> THEN Fail(SynthesizedNotFound) ELSE Ok(litAddrs')
    /\ litPc' = "done"
    /\ UNCHANGED <<litHost, litNetwork, litRound, litOnce>>
    /\ UNCHANGED notLitVars

\* The same lookup is made once more.
LitRepeat ==
    /\ litPc = "done" /\ litRound = 1
    /\ litOnce' = litRet
    /\ litRet' = NoRet
    /\ litPc' = "localhost" /\ litRound' = 2 /\ litAddrs' = <<>>
    /\ UNCHANGED <<litHost, litNetwork>>
    /\ UNCHANGED notLitVars

\* The caller turns to another lookup.
LitAgain ==
    /\ litPc = "done" /\ litRound = 2
    /\ litPc' = "idle" /\ litHost' = Localhost /\ litNetwork' = "ip"
    /\ litAddrs' = <<>> /\ litRound' = 0 /\ litOnce' = NoRet /\ litRet' = NoRet
    /\ UNCHANGED notLitVars

\* ===================================================================== DNS
\* Two versions of the DNS client are modelled: "DNS" is dnsResolver of
\* src/dns.go (one server; the A and AAAA queries one after the other when
\* singleRequest is set, else concurrently in an errgroup), "Resolver" is the
\* older Resolver.lookupHost of src/resolver.go (a list of servers, the first
\* error kept while the loop goes on).  The resolver is wrapped in Retry with
\* the default configuration and a context that is never cancelled, so every
\* LookupNetIP call of the client is one attempt of the Retry call.
DnsKinds == {"DNS", "Resolver"}
DnsTransports == {"udp", "tcp-tls"}
DnsConfs ==
    {[kind |-> "DNS", transport |-> tr, singleRequest |-> sr, servers |-> 1] :
        tr \in DnsTransports, sr \in BOOLEAN}
    \cup {[kind |-> "Resolver", transport |-> tr, singleRequest |-> TRUE, servers |-> n] :
            tr \in DnsTransports, n \in 1..MaxServers}

\* The hosts looked up: a domain name, and a text with a label of 64 octets.
DnsHostValid == DomainName(<<"example", "com">>, FALSE)
DnsHostInvalid == DomainName(<<"l64", "com">>, FALSE)
DnsHosts == {DnsHostValid, DnsHostInvalid}

\* The query types for a network, in the order of qTypes.
QTypes(network) ==
    CASE network = "ip" -> <<"A", "AAAA">>
      [] network = "ip4" -> <<"A">>
      [] network = "ip6" -> <<"AAAA">>
      [] OTHER -> <<>>
AllQTypes == {"A", "AAAA"}

\* strings.HasSuffix(client.Net, "-tls")
HasTLS(transport) == transport = "tcp-tls"

\* The response codes a server answers with, and the records of a reply.
RcodeSuccess == "NOERROR"
RcodeNameError == "NXDOMAIN"
RcodeServerFailure == "SERVFAIL"
RcodeRefused == "REFUSED"
Rcodes == {RcodeSuccess, RcodeNameError, RcodeServerFailure, RcodeRefused}
\* The answer sections of a success reply: none, the alias alone, the alias
\* and the address record asked for.
RR(type, addr) == [type |-> type, addr |-> addr]
Cname == RR("CNAME", <<>>)
Sections(qType) ==
    {<<>>, <<Cname>>, <<Cname, RR(qType, IF qType = "A" THEN Addr4a ELSE Addr6a)>>}

\* A mutant of Collected: every record of the section is taken for an address.
CollectedAll(section) == [i \in 1..Len(section) |-> section[i].addr]

\* for _, rr := range reply.Answer { switch rr.(type) { case *dns.A, *dns.AAAA: append } }
Collected(section) ==
    LET rrs == SelectSeq(section, LAMBDA rr : rr.type \in {"A", "AAAA"})
    IN  [i \in 1..Len(rrs) |-> rrs[i].addr]
Answers(qType) == {Collected(s) : s \in Sections(qType)}

\* A mutant of ConnAfter: only the deferred Close runs, and the return after a
\* failed handshake comes before the defer statement.
ConnAfterDeferOnly(ev) == IF ev = "handshake failed" THEN "open" ELSE "closed"

\* The connection when tryOneName returns: `_ = conn.Close()` after a failed
\* handshake, `defer conn.Close()` for every return after it.
ConnAfter(ev) == "closed"

\* A mutant of DnsNoneResult: no address and no error is an empty success.
DnsNoneResultEmpty(err) == IF err # Nil THEN Fail(err) ELSE Ok(<<>>)

\* The return when no address was collected: the first error where one is
\* kept, else a NotFound made up here.
DnsNoneResult(err) == IF err # Nil THEN Fail(err) ELSE Fail(SynthesizedNotFound)

\* A mutant of DialError: a dial failure is not marked temporary.
DialErrorPermanent(server) == DNSError("dial", server, FALSE, FALSE)

\* tryOneName, the dial failed: IsTemporary: true.
DialError(server) == DNSError("dial", server, FALSE, TRUE)

\* A mutant of HandshakeError: a handshake failure is marked temporary.
HandshakeErrorTemporary(server) == DNSError("handshake", server, FALSE, TRUE)

\* tryOneName, the TLS handshake failed: IsTemporary is left unset.
HandshakeError(server) == DNSError("handshake", server, FALSE, FALSE)

\* tryOneName, client.ExchangeWithConn failed: IsTemporary: true.
ExchangeError(server) == DNSError("exchange", server, FALSE, TRUE)

\* A mutant of RcodeError: every unexpected code is marked temporary.
RcodeErrorAlwaysTemporary(rcode, server) ==
    IF rcode = RcodeNameError THEN DNSError(ErrNoSuchHost, server, TRUE, FALSE)
    ELSE DNSError(ErrServerMisbehaving, server, FALSE, TRUE)

\* tryOneName, switch reply.Rcode: the error for a code other than success.
RcodeError(rcode, server) ==
    IF rcode = RcodeNameError THEN DNSError(ErrNoSuchHost, server, TRUE, FALSE)
    ELSE DNSError(ErrServerMisbehaving, server, FALSE, rcode = RcodeServerFailure)

\* A mutant of DnsConcurrent: the queries always run one after the other.
DnsConcurrentNever(conf) == FALSE

\* The queries of one call run concurrently (the errgroup of src/dns.go).
DnsConcurrent(conf) == conf.kind = "DNS" /\ ~conf.singleRequest

\* A mutant of DnsStopsAtError: the loop goes on after a failed query.
DnsStopsAtErrorNever(conf) == FALSE

\* A failed query ends the loop over qTypes at once (if err != nil { return nil, err }).
DnsStopsAtError(conf) == conf.kind = "DNS" /\ conf.singleRequest

\* Whether the collected addresses are sorted before they are returned.
DnsSorts(conf, network) == conf.kind = "Resolver" \/ network # "ip4"

DnsNoQueries == [q \in AllQTypes |-> "off"]
DnsNoLog == [dials |-> 0, sent |-> 0]
DnsNoEvents ==
    [q \in AllQTypes |-> [ev |-> "none", section |-> <<>>, answer |-> <<>>, res |-> NoRet]]
DnsNoConns == [q \in AllQTypes |-> [dials |-> 0, sent |-> 0, conn |-> "none"]]

DnsIdle ==
    /\ dnsPc = "idle" /\ dnsHost = DnsHostValid /\ dnsNetwork = "ip"
    /\ dnsSrv = 1 /\ dnsQ = DnsNoQueries /\ dnsEv = DnsNoEvents
    /\ dnsAddrs = <<>> /\ dnsErr = Nil
    /\ dnsOut = NoRet /\ dnsCalls = <<>> /\ dnsLog = DnsNoLog /\ dnsConn = DnsNoConns
    /\ dnsRet = NoRet

\* Retry(DNS(conf), nil).LookupNetIP is entered.
DnsCall ==
    /\ dnsPc = "idle"
    /\ dnsHost' \in DnsHosts
    /\ dnsNetwork' \in HostsNetworks
    /\ dnsPc' = "enter"
    /\ UNCHANGED <<dnsConf, dnsSrv, dnsQ, dnsEv, dnsAddrs, dnsErr, dnsOut, dnsCalls, dnsLog,
                   dnsConn, dnsRet>>
    /\ UNCHANGED notDnsVars

\* LookupNetIP of the client is entered: the host and the network are checked
\* before any connection is made.
DnsEnter ==
    /\ dnsPc = "enter"
    /\ dnsSrv' = 1 /\ dnsQ' = DnsNoQueries /\ dnsEv' = DnsNoEvents
    /\ dnsConn' = DnsNoConns
    /\ dnsAddrs' = <<>> /\ dnsErr' = Nil
    /\ IF ~IsDomainName(dnsHost)
       THEN dnsOut' = Fail(SynthesizedNotFound) /\ dnsPc' = "returned"
       ELSE IF dnsNetwork \notin Networks
       THEN /\ dnsOut' = Fail(DNSError(ErrUnsupportedNetwork, 0, FALSE, FALSE))
            /\ dnsPc' = "returned"
       ELSE dnsOut' = NoRet /\ dnsPc' = "queries"
    /\ UNCHANGED <<dnsConf, dnsHost, dnsNetwork, dnsCalls, dnsLog, dnsRet>>
    /\ UNCHANGED notDnsVars

\* Query q is the next to run: it has not begun, and unless the queries run
\* concurrently the ones before it in qTypes are over.
DnsMayBegin(q) ==
    /\ dnsPc = "queries"
    /\ \E i \in 1..Len(QTypes(dnsNetwork)) :
          /\ QTypes(dnsNetwork)[i] = q
          /\ dnsQ[q] = "off"
          /\ DnsConcurrent(dnsConf) \/ \A j \in 1..(i - 1) : dnsQ[QTypes(dnsNetwork)[j]] = "end"

\* Query q ends with an error: the call returns it at once, or the error is
\* kept if it is the first and the other queries go on.
DnsQueryFailed(q, ev, err) ==
    /\ dnsQ' = [dnsQ EXCEPT ![q] = "end"]
    /\ dnsEv' = [dnsEv EXCEPT ![q] = [ev |-> ev, section |-> <<>>, answer |-> <<>>,
                                      res |-> Fail(err)]]
    /\ dnsErr' = IF dnsErr = Nil THEN err ELSE dnsErr
    /\ IF DnsStopsAtError(dnsConf)
       THEN dnsOut' = Fail(err) /\ dnsPc' = "returned"
       ELSE UNCHANGED <<dnsOut, dnsPc>>
    /\ UNCHANGED dnsAddrs

\* tryOneName: r.dialContext(ctx, network, server)
DnsDial(q) ==
    /\ DnsMayBegin(q)
    /\ dnsLog' = [dnsLog EXCEPT !.dials = @ + 1]
    /\ \/ /\ dnsQ' = [dnsQ EXCEPT ![q] = IF HasTLS(dnsConf.transport) THEN "handshake"
                                        ELSE "exchange"]
          /\ dnsConn' = [dnsConn EXCEPT ![q].dials = @ + 1, ![q].conn = "open"]
          /\ UNCHANGED <<dnsEv, dnsErr, dnsOut, dnsPc, dnsAddrs>>
       \/ /\ DnsQueryFailed(q, "dial failed", DialError(dnsSrv))
          /\ dnsConn' = [dnsConn EXCEPT ![q].dials = @ + 1]
    /\ UNCHANGED <<dnsConf, dnsHost, dnsNetwork, dnsSrv, dnsCalls, dnsRet>>
    /\ UNCHANGED notDnsVars

\* tryOneName: conn.(*tls.Conn).HandshakeContext(ctx)
DnsHandshake(q) ==
    /\ dnsPc = "queries" /\ dnsQ[q] = "handshake"
    /\ \/ /\ dnsQ' = [dnsQ EXCEPT ![q] = "exchange"]
          /\ UNCHANGED <<dnsEv, dnsErr, dnsOut, dnsPc, dnsAddrs, dnsConn>>
       \/ /\ DnsQueryFailed(q, "handshake failed", HandshakeError(dnsSrv))
          /\ dnsConn' = [dnsConn EXCEPT ![q].conn = ConnAfter("handshake failed")]
    /\ UNCHANGED <<dnsConf, dnsHost, dnsNetwork, dnsSrv, dnsCalls, dnsLog, dnsRet>>
    /\ UNCHANGED notDnsVars

\* tryOneName: client.ExchangeWithConn(req, conn) and the switch on the
\* reply's code; the records of a successful reply are appended to addrs.
DnsExchange(q) ==
    /\ dnsPc = "queries" /\ dnsQ[q] = "exchange"
    /\ dnsLog' = [dnsLog EXCEPT !.sent = @ + 1]
    /\ \/ /\ DnsQueryFailed(q, "exchange failed", ExchangeError(dnsSrv))
          /\ dnsConn' = [dnsConn EXCEPT ![q].sent = @ + 1,
                                        ![q].conn = ConnAfter("exchange failed")]
       \/ \E rcode \in Rcodes \ {RcodeSuccess} :
             /\ DnsQueryFailed(q, rcode, RcodeError(rcode, dnsSrv))
             /\ dnsConn' = [dnsConn EXCEPT ![q].sent = @ + 1, ![q].conn = ConnAfter(rcode)]
       \/ \E section \in Sections(q) :
             /\ dnsAddrs' = dnsAddrs \o Collected(section)
             /\ dnsEv' = [dnsEv EXCEPT ![q] = [ev |-> RcodeSuccess, section |-> section,
                                               answer |-> Collected(section),
                                               res |-> Ok(Collected(section))]]
             /\ dnsConn' = [dnsConn EXCEPT ![q].sent = @ + 1,
                                           ![q].conn = ConnAfter(RcodeSuccess)]
             /\ dnsQ' = [dnsQ EXCEPT ![q] = "end"]
             /\ UNCHANGED <<dnsErr, dnsOut, dnsPc>>
    /\ UNCHANGED <<dnsConf, dnsHost, dnsNetwork, dnsSrv, dnsCalls, dnsRet>>
    /\ UNCHANGED notDnsVars

\* All queries (to this server) are over.
DnsQueriesOver ==
    /\ dnsPc = "queries"
    /\ \A i \in 1..Len(QTypes(dnsNetwork)) : dnsQ[QTypes(dnsNetwork)[i]] = "end"

\* g.Wait() returned an error: LookupNetIP returns it.
DnsGroupFailed ==
    /\ DnsQueriesOver
    /\ dnsConf.kind = "DNS" /\ dnsErr # Nil
    /\ dnsOut' = Fail(dnsErr) /\ dnsPc' = "returned"
    /\ UNCHANGED <<dnsConf, dnsHost, dnsNetwork, dnsSrv, dnsQ, dnsEv, dnsAddrs, dnsErr,
                   dnsCalls, dnsLog, dnsConn, dnsRet>>
    /\ UNCHANGED notDnsVars

\* if len(addrs) > 0: the addresses are returned, sorted unless the network is "ip4".
DnsReturnAddrs ==
    /\ DnsQueriesOver
    /\ dnsConf.kind = "DNS" => dnsErr = Nil
    /\ dnsAddrs # <<>>
    /\ IF DnsSorts(dnsConf, dnsNetwork)
       THEN \E srcs \in Probes(dnsAddrs) : dnsOut' = Ok(SortByRFC6724(srcs, dnsAddrs))
       ELSE dnsOut' = Ok(dnsAddrs)
    /\ dnsPc' = "returned"
    /\ UNCHANGED <<dnsConf, dnsHost, dnsNetwork, dnsSrv, dnsQ, dnsEv, dnsAddrs, dnsErr,
                   dnsCalls, dnsLog, dnsConn, dnsRet>>
    /\ UNCHANGED notDnsVars

\* Resolver.lookupHost: no address from this server, the next one is asked.
DnsNextServer ==
    /\ DnsQueriesOver
    /\ dnsConf.kind = "Resolver" /\ dnsAddrs = <<>> /\ dnsSrv < dnsConf.servers
    /\ dnsSrv' = dnsSrv + 1
    /\ dnsQ' = DnsNoQueries /\ dnsEv' = DnsNoEvents /\ dnsConn' = DnsNoConns
    /\ UNCHANGED <<dnsConf, dnsHost, dnsNetwork, dnsAddrs, dnsErr, dnsOut, dnsPc, dnsCalls,
                   dnsLog, dnsRet>>
    /\ UNCHANGED notDnsVars

\* No address was collected: the first error, else a NotFound made up here.
DnsReturnNone ==
    /\ DnsQueriesOver
    /\ dnsConf.kind = "DNS" => dnsErr = Nil
    /\ dnsAddrs = <<>>
    /\ dnsConf.kind = "Resolver" => dnsSrv = dnsConf.servers
    /\ dnsOut' = DnsNoneResult(dnsErr)
    /\ dnsPc' = "returned"
    /\ UNCHANGED <<dnsConf, dnsHost, dnsNetwork, dnsSrv, dnsQ, dnsEv, dnsAddrs, dnsErr,
                   dnsCalls, dnsLog, dnsConn, dnsRet>>
    /\ UNCHANGED notDnsVars

\* Retry: the attempt is over; the call returns, or the client is called again
\* when the error is temporary and attempts are left.
DnsRetry ==
    /\ dnsPc = "returned"
    /\ dnsCalls' = Append(dnsCalls, dnsOut)
    /\ IF dnsOut.err = Nil
       THEN dnsRet' = dnsOut /\ dnsPc' = "done"
       ELSE IF ~RetryIf(dnsOut.err) \/ LastAttempt(Len(dnsCalls), RetryAttempts(NilConf))
       THEN dnsRet' = Fail(dnsOut.err) /\ dnsPc' = "done"
       ELSE dnsRet' = dnsRet /\ dnsPc' = "enter"
    /\ UNCHANGED <<dnsConf, dnsHost, dnsNetwork, dnsSrv, dnsQ, dnsEv, dnsAddrs, dnsErr, dnsOut,
                   dnsLog, dnsConn>>
    /\ UNCHANGED notDnsVars

\* The caller turns to another lookup.
DnsAgain ==
    /\ dnsPc = "done"
    /\ dnsPc' = "idle" /\ dnsHost' = DnsHostValid /\ dnsNetwork' = "ip"
    /\ dnsSrv' = 1 /\ dnsQ' = DnsNoQueries /\ dnsEv' = DnsNoEvents
    /\ dnsAddrs' = <<>> /\ dnsErr' = Nil
    /\ dnsOut' = NoRet /\ dnsCalls' = <<>> /\ dnsLog' = DnsNoLog /\ dnsRet' = NoRet
    /\ dnsConn' = DnsNoConns
    /\ UNCHANGED dnsConf
    /\ UNCHANGED notDnsVars

\* ============================================================== LookupHost
\* The resolvers of the older interface have LookupHost beside LookupNetIP.
\* "Leaf" stands for the resolvers whose LookupHost calls their own
\* LookupNetIP for "ip" and turns the addresses into text (ipResolver,
\* dnsResolver, relativeResolver, fileResolver); Chain, RoundRobin and Retry
\* call the LookupHost of their inner resolvers.  One call of each method is
\* made against the same answers of the inner resolvers; an inner resolver's
\* LookupHost answers with the text of what its LookupNetIP answers.
LhKinds == {"Leaf", "Chain", "RoundRobin", "Retry"}
LhConfs ==
    {[kind |-> "Leaf", n |-> 1]}
    \cup {[kind |-> k, n |-> n] : k \in {"Chain", "RoundRobin"}, n \in 0..MaxResolvers}
    \cup {[kind |-> "Retry", n |-> n] : n \in 1..MaxAttempts}

\* What the i-th inner resolver (for Retry: the i-th attempt) can answer to
\* LookupNetIP for "ip".
LhOutcomes(i) ==
    {Ok(<<Addr4a>>), Ok(<<Addr6a, Addr4aMapped>>), Fail(NotFound(i)), Fail(ServFail(i))}
LhScripts(n) == {s \in [1..n -> UNION {LhOutcomes(i) : i \in 1..n}] :
                    \A i \in 1..n : s[i] \in LhOutcomes(i)}

\* netip.Addr.String: dotted decimal for IPv4, "::ffff:" and dotted decimal
\* for an IPv4-mapped address, else the shortened hexadecimal groups.
Dotted(b) ==
    ToString(b[1]) \o "." \o ToString(b[2]) \o "." \o ToString(b[3]) \o "." \o ToString(b[4])
AddrString(a) ==
    IF Is4(a) THEN Dotted(a)
    ELSE IF Is4In6(a) THEN "::ffff:" \o Dotted(SubSeq(a, 13, 16))
    ELSE IF a = Addr6a THEN "2001:db8::10"
    ELSE "::"

\* util.Strings: the text of each address, in order.
Strings(addrs) == [i \in 1..Len(addrs) |-> AddrString(addrs[i])]

\* The LookupHost of an inner resolver whose LookupNetIP answers `out`.
InnerLookupHost(out) == IF out.err = Nil THEN Ok(Strings(out.addrs)) ELSE out

\* The order in which a call goes through the inner resolvers.
LhOrders(conf) == IF conf.kind = "RoundRobin" THEN Shuffle(Ids(conf.n)) ELSE {Ids(conf.n)}

\* A mutant of LhHostNoteErr: LookupHost keeps the last error.
LhHostNoteLastErr(errs, err) == <<err>>

\* chainResolver.LookupHost: else if firstErr == nil { firstErr = err }
LhHostNoteErr(errs, err) == IF errs = <<>> THEN <<err>> ELSE errs

\* chainResolver.LookupHost after the loop: firstErr, or a NotFound made up here.
LhHostFinal(errs) == IF errs # <<>> THEN Fail(errs[1]) ELSE Fail(SynthesizedNotFound)

\* retryResolver.LookupHost: retry.RetryIf(isTemporary)
LhHostRetryIf(err) == isTemporary(err)

LhIdle ==
    /\ lhPc = "idle" /\ lhScript = <<>> /\ lhOrder = <<>> /\ lhHostOrder = <<>>
    /\ lhI = 0 /\ lhErrs = <<>> /\ lhHostRet = NoRet /\ lhIpRet = NoRet

\* LookupHost(ctx, host) is entered.
LhHostCall ==
    /\ lhPc = "idle"
    /\ lhScript' \in LhScripts(lhConf.n)
    /\ lhOrder' \in LhOrders(lhConf)
    /\ lhHostOrder' = lhOrder'
    /\ lhPc' = "host" /\ lhI' = 0 /\ lhErrs' = <<>>
    /\ UNCHANGED <<lhConf, lhHostRet, lhIpRet>>
    /\ UNCHANGED notLhVars

\* What one more inner answer makes of a call: it returns, or goes on with
\* the errors it keeps.  `retryIf` and `noteErr` are those of the method.
LhStep(out, retryIf(_), noteErr(_, _)) ==
    CASE lhConf.kind = "Leaf" -> [ret |-> out, errs |-> lhErrs]
      [] lhConf.kind = "Retry" ->
            IF out.err = Nil THEN [ret |-> out, errs |-> lhErrs]
            ELSE IF ~retryIf(out.err) \/ LastAttempt(lhI, lhConf.n)
            THEN [ret |-> Fail(GiveUpError(Append(lhErrs, out.err))),
                  errs |-> Append(lhErrs, out.err)]
            ELSE [ret |-> NoRet, errs |-> Append(lhErrs, out.err)]
      [] OTHER ->
            IF out.err = Nil THEN [ret |-> out, errs |-> lhErrs]
            ELSE [ret |-> NoRet, errs |-> noteErr(lhErrs, out.err)]

\* LookupHost: the next inner resolver's LookupHost is called (for a leaf its
\* own LookupNetIP, whose addresses are turned into text).
LhHostTry ==
    /\ lhPc = "host" /\ lhI < Len(lhOrder)
    /\ LET step == LhStep(InnerLookupHost(lhScript[lhOrder[lhI + 1]]),
                          LhHostRetryIf, LhHostNoteErr)
       IN  /\ lhErrs' = step.errs
           /\ lhI' = lhI + 1
           /\ IF step.ret = NoRet
              THEN UNCHANGED <<lhHostRet, lhPc>>
              ELSE lhHostRet' = step.ret /\ lhPc' = "between"
    /\ UNCHANGED <<lhConf, lhScript, lhOrder, lhHostOrder, lhIpRet>>
    /\ UNCHANGED notLhVars

\* LookupHost: the loop is over without a success.
LhHostExhausted ==
    /\ lhPc = "host" /\ lhI = Len(lhOrder)
    /\ lhHostRet' = LhHostFinal(lhErrs)
    /\ lhPc' = "between"
    /\ UNCHANGED <<lhConf, lhScript, lhOrder, lhHostOrder, lhI, lhErrs, lhIpRet>>
    /\ UNCHANGED notLhVars

\* LookupNetIP(ctx, "ip", host) is entered.
LhIpCall ==
    /\ lhPc = "between"
    /\ lhOrder' \in LhOrders(lhConf)
    /\ lhPc' = "ip" /\ lhI' = 0 /\ lhErrs' = <<>>
    /\ UNCHANGED <<lhConf, lhScript, lhHostOrder, lhHostRet, lhIpRet>>
    /\ UNCHANGED notLhVars

\* LookupNetIP: the next inner resolver's LookupNetIP is called.
LhIpTry ==
    /\ lhPc = "ip" /\ lhI < Len(lhOrder)
    /\ LET step == LhStep(lhScript[lhOrder[lhI + 1]], RetryIf,
                          LAMBDA errs, err : SeqNoteErr("Chain", errs, err))
       IN  /\ lhErrs' = step.errs
           /\ lhI' = lhI + 1
           /\ IF step.ret = NoRet
              THEN UNCHANGED <<lhIpRet, lhPc>>
              ELSE lhIpRet' = step.ret /\ lhPc' = "done"
    /\ UNCHANGED <<lhConf, lhScript, lhOrder, lhHostOrder, lhHostRet>>
    /\ UNCHANGED notLhVars

\* LookupNetIP: the loop is over without a success.
LhIpExhausted ==
    /\ lhPc = "ip" /\ lhI = Len(lhOrder)
    /\ lhIpRet' = SeqFinal("Chain", lhErrs)
    /\ lhPc' = "done"
    /\ UNCHANGED <<lhConf, lhScript, lhOrder, lhHostOrder, lhI, lhErrs, lhHostRet>>
    /\ UNCHANGED notLhVars

\* The caller turns to another pair of lookups.
LhAgain ==
    /\ lhPc = "done"
    /\ lhPc' = "idle" /\ lhScript' = <<>> /\ lhOrder' = <<>> /\ lhHostOrder' = <<>>
    /\ lhI' = 0 /\ lhErrs' = <<>> /\ lhHostRet' = NoRet /\ lhIpRet' = NoRet
    /\ UNCHANGED lhConf
    /\ UNCHANGED notLhVars

\* ================================================================== System
\* System(conf): Sequential(Literal(), Hosts(file), rest), where rest is the
\* DNS resolvers of the configured servers under RoundRobin or Sequential,
\* wrapped in Retry and, when there is a search list, in Relative.  The hosts
\* file is read once; the context of a lookup is never cancelled.
SysServers == Ids(MaxServers)
SysSearches ==
    {<<>>, <<DomainName(<<"example", "com">>, TRUE)>>,
     <<DomainName(<<"example", "com">>, TRUE), DomainName(<<"com">>, TRUE)>>}
SysAttempts == {0, 1}
SysConfs == [rotate : BOOLEAN, attempts : SysAttempts, search : SysSearches]
SysNdots == 1

\* The hosts looked up: IP literals, localhost, a name of the hosts file, a
\* name that is not in it, and a name without a dot.
HostLiteral4 == DomainName(<<"10", "0", "0", "1">>, FALSE)
HostLiteral6 == DomainName(<<"2001:db8::10">>, FALSE)
HostBare == DomainName(<<"www">>, FALSE)
SysHosts == {HostLiteral4, HostLiteral6, Localhost, HostApi, HostOther, HostBare}

\* nameToAddr as Hosts builds it from the hosts file.
SysTable ==
    [k \in {HostsKey(h) : h \in SysHosts} |->
        IF k = HostsKey(HostApi) THEN Entry(HostsFileAddrs) ELSE Absent]

\* literalResolver.LookupNetIP as one value: the steps LitLocalhost, LitParse,
\* LitNetwork and LitFilter in a row.
LiteralAnswer(network, host) ==
    LET named == IF LitIsLocalhost(host) THEN <<IPv6Loopback, Loopback4>> ELSE <<>>
        addrs == IF ParseAddr(host).ok THEN <<ParseAddr(host).addr>> ELSE named
        left == FilterByNetwork(addrs, network)
    IN  IF network \notin Networks
        THEN Fail(DNSError(ErrUnsupportedNetwork, 0, FALSE, FALSE))
        ELSE IF left = <<>> THEN Fail(SynthesizedNotFound) ELSE Ok(left)

\* What DNS(server).LookupNetIP can return: an unsupported network is refused
\* before any query; else addresses of the family, NotFound, or a temporary
\* failure of the server.
SysDnsOutcomes(server, network) ==
    IF network \notin Networks
    THEN {Fail(DNSError(ErrUnsupportedNetwork, 0, FALSE, FALSE))}
    ELSE {Ok(FilterByNetwork(<<Addr4b, Addr6a>>, network)),
          Fail(NotFound(server)), Fail(ServFail(server))}

\* A mutant of SysOrders: the servers are shuffled whatever rotate says.
SysOrdersShuffled(conf, servers) == Shuffle(servers)

\* if systemDNSConf.Rotate { RoundRobin(resolvers...) } else { Sequential(resolvers...) }:
\* the orders in which one call of that resolver can walk the servers.
SysOrders(conf, servers) ==
    IF conf.rotate THEN SeqOrder("RoundRobin", servers) ELSE SeqOrder("Sequential", servers)

\* var attempts *int; if systemDNSConf.Attempts > 0 { attempts = &systemDNSConf.Attempts }
SysRetryConf(conf) == IF conf.attempts > 0 THEN Conf(conf.attempts) ELSE NilConf

\* if len(systemDNSConf.Search) > 0 { resolver = Relative(resolver, ...) }: the
\* names the DNS resolvers are asked for.
SysNames(conf, host) ==
    IF Len(conf.search) > 0
    THEN RelNames("RelativeJoin", host, conf.search, SysNdots)
    ELSE <<host>>

\* The verdicts retry.RetryIf(isTemporary) can reach: the classification of the
\* joined error that Sequential returns is not part of the sources.
SysRetryIf(err) == IF err.kind = "join" THEN BOOLEAN ELSE {RetryIf(err)}

SysNoErrs == [top |-> <<>>, rel |-> <<>>, log |-> <<>>, pass |-> <<>>]

SysIdle ==
    /\ sysPc = "idle" /\ sysHost = Localhost /\ sysNetwork = "ip"
    /\ sysTrace = <<>> /\ sysNames = <<>> /\ sysNameI = 0 /\ sysN = 0
    /\ sysOrder = <<>> /\ sysPass = <<>> /\ sysErrs = SysNoErrs
    /\ sysCalls = <<>> /\ sysRet = NoRet

\* LookupNetIP of the composed resolver is entered: sequentialResolver's loop begins.
SysCall ==
    /\ sysPc = "idle"
    /\ sysHost' \in SysHosts
    /\ sysNetwork' \in HostsNetworks
    /\ sysPc' = "literal"
    /\ UNCHANGED <<sysConf, sysTrace, sysNames, sysNameI, sysN, sysOrder, sysPass,
                   sysErrs, sysCalls, sysRet>>
    /\ UNCHANGED notSysVars

\* The first resolver of the list, Literal(), is asked.
SysLiteral ==
    /\ sysPc = "literal"
    /\ sysTrace' = Append(sysTrace, "Literal")
    /\ LET out == LiteralAnswer(sysNetwork, sysHost) IN
         IF out.err = Nil
         THEN sysRet' = out /\ sysPc' = "done" /\ sysErrs' = sysErrs
         ELSE /\ sysErrs' = [sysErrs EXCEPT !.top = SeqNoteErr("Sequential", @, out.err)]
              /\ sysPc' = "hosts" /\ sysRet' = sysRet
    /\ UNCHANGED <<sysConf, sysHost, sysNetwork, sysNames, sysNameI, sysN, sysOrder,
                   sysPass, sysCalls>>
    /\ UNCHANGED notSysVars

\* The second resolver, the hosts table, is asked.
SysHostsTable ==
    /\ sysPc = "hosts"
    /\ sysTrace' = Append(sysTrace, "Hosts")
    /\ LET ans == HostsAnswer(SysTable[HostsKey(sysHost)], sysNetwork) IN
         IF ans.err # Nil
         THEN /\ sysErrs' = [sysErrs EXCEPT !.top = SeqNoteErr("Sequential", @, ans.err)]
              /\ sysPc' = "dns" /\ sysRet' = sysRet
         ELSE /\ sysErrs' = sysErrs /\ sysPc' = "done"
              /\ IF PaSorts(sysNetwork, ans.addrs)
                 THEN \E srcs \in Probes(ans.addrs) :
                         sysRet' = Ok(SortByRFC6724(srcs, ans.addrs))
                 ELSE sysRet' = ans
    /\ UNCHANGED <<sysConf, sysHost, sysNetwork, sysNames, sysNameI, sysN, sysOrder,
                   sysPass, sysCalls>>
    /\ UNCHANGED notSysVars

\* The third resolver is asked: the candidate names are computed.
SysRelative ==
    /\ sysPc = "dns"
    /\ sysTrace' = Append(sysTrace, "DNS")
    /\ sysNames' = SysNames(sysConf, sysHost)
    /\ sysNameI' = 0
    /\ sysPc' = "name"
    /\ UNCHANGED <<sysConf, sysHost, sysNetwork, sysN, sysOrder, sysPass, sysErrs,
                   sysCalls, sysRet>>
    /\ UNCHANGED notSysVars

\* The next name goes to Retry, which makes its first attempt; when no name is
\* left, the errors are returned and Sequential, its list at its end, joins its own.
SysName ==
    /\ sysPc = "name"
    /\ IF sysNameI < Len(sysNames)
       THEN /\ sysOrder' \in SysOrders(sysConf, SysServers)
            /\ sysN' = 0 /\ sysPass' = <<>>
            /\ sysErrs' = [sysErrs EXCEPT !.log = <<>>, !.pass = <<>>]
            /\ sysPc' = "pass"
            /\ UNCHANGED sysRet
       ELSE /\ LET err == IF Len(sysConf.search) > 0
                          THEN RelFinal("RelativeJoin", sysErrs.rel).err
                          ELSE sysErrs.rel[1]
               IN sysRet' = SeqFinal("Sequential", SeqNoteErr("Sequential", sysErrs.top, err))
            /\ sysPc' = "done"
            /\ UNCHANGED <<sysN, sysOrder, sysPass, sysErrs>>
    /\ UNCHANGED <<sysConf, sysHost, sysNetwork, sysTrace, sysNames, sysNameI, sysCalls>>
    /\ UNCHANGED notSysVars

\* The DNS resolver of the next server of the pass is invoked; its success is
\* the result of the whole lookup.
SysServer ==
    /\ sysPc = "pass"
    /\ SeqMore(sysOrder, Len(sysPass))
    /\ LET server == sysOrder[Len(sysPass) + 1] IN
         /\ sysPass' = Append(sysPass, server)
         /\ sysCalls' = Append(sysCalls, <<server, sysNames[sysNameI + 1]>>)
         /\ \E out \in SysDnsOutcomes(server, sysNetwork) :
              IF out.err = Nil
              THEN sysRet' = out /\ sysPc' = "done" /\ sysErrs' = sysErrs
              ELSE /\ sysErrs' = [sysErrs EXCEPT !.pass = SeqNoteErr("Sequential", @, out.err)]
                   /\ UNCHANGED <<sysRet, sysPc>>
    /\ UNCHANGED <<sysConf, sysHost, sysNetwork, sysTrace, sysNames, sysNameI, sysN,
                   sysOrder>>
    /\ UNCHANGED notSysVars

\* Every server of the pass has failed: Retry attempts again, or gives up and
\* the name has failed.
SysPassOver ==
    /\ sysPc = "pass"
    /\ ~SeqMore(sysOrder, Len(sysPass))
    /\ LET err == SeqFinal("Sequential", sysErrs.pass).err
           attempts == RetryAttempts(SysRetryConf(sysConf))
           log == Append(sysErrs.log, err)
       IN  \E again \in SysRetryIf(err) :
             IF again /\ ~LastAttempt(sysN, attempts)
             THEN /\ sysN' = sysN + 1
                  /\ sysOrder' \in SysOrders(sysConf, SysServers)
                  /\ sysPass' = <<>>
                  /\ sysErrs' = [sysErrs EXCEPT !.log = log, !.pass = <<>>]
                  /\ UNCHANGED <<sysPc, sysNameI>>
             ELSE /\ sysErrs' = [sysErrs EXCEPT !.log = log,
                                    !.rel = Append(@, GiveUpError(log))]
                  /\ sysNameI' = sysNameI + 1
                  /\ sysPc' = "name"
                  /\ UNCHANGED <<sysN, sysOrder, sysPass>>
    /\ UNCHANGED <<sysConf, sysHost, sysNetwork, sysTrace, sysNames, sysCalls, sysRet>>
    /\ UNCHANGED notSysVars

\* The caller is ready for its next lookup.
SysAgain ==
    /\ sysPc = "done"
    /\ sysPc' = "idle" /\ sysHost' = Localhost /\ sysNetwork' = "ip"
    /\ sysTrace' = <<>> /\ sysNames' = <<>> /\ sysNameI' = 0 /\ sysN' = 0
    /\ sysOrder' = <<>> /\ sysPass' = <<>> /\ sysErrs' = SysNoErrs
    /\ sysCalls' = <<>> /\ sysRet' = NoRet
    /\ UNCHANGED sysConf
    /\ UNCHANGED notSysVars

\* ============================================================ idle parts
CtxIdle == callerCtx = Nil /\ derivedCtx = Nil

ParIdle ==
    /\ pMain = "idle" /\ pSpawned = 0 /\ pSel = NoSel
    /\ pTask = [i \in 1..pN |-> "unspawned"]
    /\ pOut = [i \in 1..pN |-> NoRet]
    /\ pCloser = "unspawned" /\ pWg = 0 /\ pClosed = FALSE /\ pMu = 0
    /\ pErrs = <<>> /\ pRet = NoRet
    /\ pHist = [cancelFirst |-> FALSE, ctxAlone |-> FALSE, busyAtReturn |-> {}]

RetryIdle ==
    /\ rPc = "idle" /\ rN = 0 /\ rErrorLog = <<>> /\ rCalls = <<>>
    /\ rStarted = 0 /\ rRet = NoRet

RelUnused ==
    /\ rlKind = "RelativeJoin" /\ rlSearch = <<>> /\ rlNdots = 0 /\ RelIdle

\* The resolvers a specification does not exercise stay as constructed.
SortUnused == soAddrs = <<>> /\ SortIdle
D64Unused == dConf = D64NilConf /\ D64Idle
HostsUnused ==
    /\ hTable = [k \in HostsKeys |-> Absent]
    /\ hLast = [k \in HostsNames |-> [op |-> "Hosts", addrs |-> <<>>]]
    /\ hMu = MuFree
    /\ hCaller = [t \in HostsCallers |-> HostsIdleCaller]
MoreUnused == RelUnused /\ SortUnused /\ D64Unused /\ PaIdle /\ HostsUnused
DnsUnused ==
    /\ dnsConf = [kind |-> "DNS", transport |-> "udp", singleRequest |-> FALSE, servers |-> 1]
    /\ DnsIdle
LhUnused == lhConf = [kind |-> "Leaf", n |-> 1] /\ LhIdle
SysUnused ==
    /\ sysConf = [rotate |-> FALSE, attempts |-> 0, search |-> <<>>]
    /\ SysIdle
ExtraUnused == LitIdle /\ DnsUnused /\ LhUnused /\ SysUnused
CoreUnused ==
    /\ CtxIdle
    /\ sKind = "Sequential" /\ sResolvers = <<>> /\ SeqIdle
    /\ pN = 0 /\ ParIdle
    /\ rConf = NilConf /\ RetryIdle

\* ================================================= SpecSeq: Sequential and kin
SeqInit ==
    /\ CtxIdle
    /\ ExtraUnused
    /\ sKind \in SeqKinds
    /\ sResolvers \in {Ids(n) : n \in 0..MaxResolvers}
    /\ SeqIdle
    /\ pN = 0 /\ ParIdle
    /\ rConf = NilConf /\ RetryIdle
    /\ MoreUnused

SeqNext == SeqCall \/ SeqTry \/ SeqExhausted \/ SeqAgain \/ SeqCancel

SpecSeq == SeqInit /\ [][SeqNext]_vars

\* ======================================================= SpecPar: Parallel
ParInit ==
    /\ CtxIdle
    /\ ExtraUnused
    /\ sKind = "Sequential" /\ sResolvers = <<>> /\ SeqIdle
    /\ pN \in 0..MaxParallel
    /\ ParIdle
    /\ rConf = NilConf /\ RetryIdle
    /\ MoreUnused

ParNext ==
    \/ ParCall \/ ParSpawn \/ ParLoopEnd \/ ParSelectTake \/ ParSelectPark \/ ParReturn
    \/ \E i \in ParTasks :
         TaskLookup(i) \/ TaskSend(i) \/ TaskLock(i) \/ TaskAppend(i) \/ TaskExit(i)
    \/ CloserClose
    \/ ParCancel

SpecPar == ParInit /\ [][ParNext]_vars

\* The same, with what a claim about the tasks' termination takes for granted:
\* every inner lookup returns and every goroutine that can take a step takes it.
SpecParFair ==
    /\ ParInit /\ [][ParNext]_vars
    /\ WF_vars(ParCall) /\ WF_vars(ParSpawn) /\ WF_vars(ParLoopEnd)
    /\ WF_vars(ParSelectTake) /\ WF_vars(ParSelectPark) /\ WF_vars(ParReturn)
    /\ \A i \in 1..MaxParallel :
         /\ WF_vars(i \in ParTasks /\ TaskLookup(i))
         /\ WF_vars(i \in ParTasks /\ TaskSend(i))
         /\ WF_vars(i \in ParTasks /\ TaskLock(i))
         /\ WF_vars(i \in ParTasks /\ TaskAppend(i))
         /\ WF_vars(i \in ParTasks /\ TaskExit(i))
    /\ WF_vars(CloserClose)

\* ========================================================= SpecRetry: Retry
RetryInit ==
    /\ CtxIdle
    /\ ExtraUnused
    /\ sKind = "Sequential" /\ sResolvers = <<>> /\ SeqIdle
    /\ pN = 0 /\ ParIdle
    /\ rConf \in {NilConf} \cup {Conf(n) : n \in 0..MaxAttempts}
    /\ RetryIdle
    /\ MoreUnused

RetryNext ==
    RetryCall \/ RetryInner \/ RetryWaitCtx \/ RetryWaitTimer \/ RetryCancel \/ RetryAgain

SpecRetry == RetryInit /\ [][RetryNext]_vars

\* The same, with what the claims about termination take for granted: a call of
\* the inner resolver returns, and the select between two attempts takes one of
\* its cases (the timer fires after a finite delay).
SpecRetryFair ==
    /\ RetryInit /\ [][RetryNext]_vars
    /\ WF_vars(RetryInner) /\ WF_vars(RetryWaitCtx) /\ WF_vars(RetryWaitTimer)

\* ===================================================== SpecRel: Relative
RelInit ==
    /\ CtxIdle
    /\ ExtraUnused
    /\ sKind = "Sequential" /\ sResolvers = <<>> /\ SeqIdle
    /\ pN = 0 /\ ParIdle
    /\ rConf = NilConf /\ RetryIdle
    /\ rlKind \in RelKinds
    /\ rlSearch \in SeqsUpTo(RelSuffixes, MaxSearch)
    /\ rlNdots \in 0..MaxNdots
    /\ RelIdle
    /\ SortUnused /\ D64Unused /\ PaIdle /\ HostsUnused

RelNext == RelCall \/ RelTry \/ RelExhausted \/ RelAgain

SpecRel == RelInit /\ [][RelNext]_vars

\* ================================================ SpecSort: SortByRFC6724
SortInit ==
    /\ CtxIdle
    /\ ExtraUnused
    /\ sKind = "Sequential" /\ sResolvers = <<>> /\ SeqIdle
    /\ pN = 0 /\ ParIdle
    /\ rConf = NilConf /\ RetryIdle
    /\ RelUnused /\ D64Unused /\ PaIdle /\ HostsUnused
    /\ soAddrs \in SeqsUpTo(SortUniverse, MaxSortLen)
    /\ SortIdle

SortNext == SortOnce \/ SortTwice

SpecSort == SortInit /\ [][SortNext]_vars

\* ========================================================= SpecD64: DNS64
D64Init ==
    /\ CtxIdle
    /\ ExtraUnused
    /\ sKind = "Sequential" /\ sResolvers = <<>> /\ SeqIdle
    /\ pN = 0 /\ ParIdle
    /\ rConf = NilConf /\ RetryIdle
    /\ RelUnused /\ SortUnused /\ PaIdle /\ HostsUnused
    /\ dConf \in {D64NilConf, WellKnownPrefix, OtherPrefix}
    /\ D64Idle

D64Next == D64Call \/ D64Inner \/ D64ReturnIPv4 \/ D64ReturnSorted \/ D64Again

SpecD64 == D64Init /\ [][D64Next]_vars

\* ================================================ SpecPa: PreferredAddress
PaInit ==
    /\ CtxIdle
    /\ ExtraUnused
    /\ sKind = "Sequential" /\ sResolvers = <<>> /\ SeqIdle
    /\ pN = 0 /\ ParIdle
    /\ rConf = NilConf /\ RetryIdle
    /\ RelUnused /\ SortUnused /\ D64Unused /\ HostsUnused
    /\ PaIdle

PaNext == PaCall \/ PaInner \/ PaReturnSorted \/ PaReturnAsIs \/ PaAgain

SpecPa == PaInit /\ [][PaNext]_vars

\* ========================================================= SpecHosts: Hosts
\* Hosts(conf): the table holds what the hosts file gives, here nothing or an
\* entry for one name.
HostsInit ==
    /\ CtxIdle
    /\ ExtraUnused
    /\ sKind = "Sequential" /\ sResolvers = <<>> /\ SeqIdle
    /\ pN = 0 /\ ParIdle
    /\ rConf = NilConf /\ RetryIdle
    /\ RelUnused /\ SortUnused /\ D64Unused /\ PaIdle
    /\ hTable \in {[k \in HostsKeys |-> Absent],
                   [k \in HostsKeys |-> IF k = HostsKey(HostApi) THEN Entry(HostsFileAddrs)
                                        ELSE Absent]}
    /\ hLast = [k \in HostsNames |->
                    [op |-> "Hosts",
                     addrs |-> IF hTable[HostsKey(HostApi)].ok /\ k = Fqdn(HostApi)
                               THEN HostsFileAddrs ELSE <<>>]]
    /\ hMu = MuFree
    /\ hCaller = [t \in HostsCallers |-> HostsIdleCaller]

HostsNext ==
    \E t \in HostsCallers :
        \/ HostsBegin(t) \/ HostsLock(t) \/ HostsWriteBegin(t) \/ HostsWrite(t)
        \/ HostsUnlock(t)
        \/ HostsRLock(t) \/ HostsRead(t) \/ HostsRUnlock(t) \/ HostsReturn(t)
        \/ HostsFinish(t)

SpecHosts == HostsInit /\ [][HostsNext]_vars

\* ===================================================== SpecLit: Literal
LitInit == CoreUnused /\ MoreUnused /\ LitIdle /\ DnsUnused /\ LhUnused /\ SysUnused

LitNext ==
    \/ LitCall \/ LitLocalhost \/ LitParse \/ LitNetwork \/ LitFilter
    \/ LitRepeat \/ LitAgain

SpecLit == LitInit /\ [][LitNext]_vars

\* ============================================================ SpecDns: DNS
DnsInit ==
    /\ CoreUnused /\ MoreUnused /\ LitIdle /\ LhUnused /\ SysUnused
    /\ dnsConf \in DnsConfs
    /\ DnsIdle

DnsNext ==
    \/ DnsCall \/ DnsEnter
    \/ \E q \in AllQTypes : DnsDial(q) \/ DnsHandshake(q) \/ DnsExchange(q)
    \/ DnsGroupFailed \/ DnsReturnAddrs \/ DnsNextServer \/ DnsReturnNone
    \/ DnsRetry \/ DnsAgain

SpecDns == DnsInit /\ [][DnsNext]_vars

\* ====================================================== SpecLh: LookupHost
LhInit ==
    /\ CoreUnused /\ MoreUnused /\ LitIdle /\ DnsUnused /\ SysUnused
    /\ lhConf \in LhConfs
    /\ LhIdle

LhNext ==
    \/ LhHostCall \/ LhHostTry \/ LhHostExhausted
    \/ LhIpCall \/ LhIpTry \/ LhIpExhausted \/ LhAgain

SpecLh == LhInit /\ [][LhNext]_vars

\* ========================================================= SpecSys: System
SysInit ==
    /\ CoreUnused /\ MoreUnused /\ LitIdle /\ DnsUnused /\ LhUnused
    /\ sysConf \in SysConfs
    /\ SysIdle

SysNext ==
    \/ SysCall \/ SysLiteral \/ SysHostsTable \/ SysRelative \/ SysName
    \/ SysServer \/ SysPassOver \/ SysAgain

SpecSys == SysInit /\ [][SysNext]_vars

\* ================================================================== claims
CallId(k) == sCalls[k][1]
CallOut(k) == sCalls[k][2]
SeqAllFailed == \A k \in 1..Len(sCalls) : CallOut(k).err # Nil
IsNotFound(e) == e.kind = "dns" /\ e.isNotFound

\* C1: Sequential.LookupNetIP invokes its inner resolvers in the configured
\* order, each at most once; nothing is invoked after the first resolver that
\* returns no error, and that resolver's address list is what the call returns.
C1_SequentialInOrderFirstSuccess ==
    (sKind \in {"Sequential", "Chain"} /\ sPc \in {"loop", "done"}) =>
        /\ Len(sCalls) <= Len(sResolvers)
        /\ \A k \in 1..Len(sCalls) : CallId(k) = sResolvers[k]
        /\ \A k \in 1..(Len(sCalls) - 1) : CallOut(k).err # Nil
        /\ (Len(sCalls) > 0 /\ Last(sCalls)[2].err = Nil) =>
              (sPc = "done" /\ sRet = Ok(Last(sCalls)[2].addrs))

\* C1 witness: the second of three resolvers is the first to succeed.
C1_Witness ==
    /\ sKind = "Sequential" /\ sPc = "done" /\ Len(sResolvers) = 3
    /\ Len(sCalls) = 2 /\ CallOut(1).err # Nil
    /\ sRet = Ok(MockAddrs(2))

\* C7: when every inner resolver fails, Sequential has invoked each of them
\* exactly once and returns one joined error that holds every inner error, in
\* order; errors.As on it yields a NotFound when the inner errors are NotFound.
C7_SequentialJoinsEveryError ==
    (sKind \in {"Sequential", "RoundRobin"} /\ sPc = "done" /\ SeqAllFailed) =>
        /\ Len(sCalls) = Len(sResolvers)
        /\ {CallId(k) : k \in 1..Len(sCalls)} = Range(sResolvers)
        /\ \A k \in 1..Len(sCalls) : CallId(k) = sOrder[k]
        /\ Len(Unjoin(sRet.err)) = Len(sCalls)
        /\ \A k \in 1..Len(sCalls) : Unjoin(sRet.err)[k] = CallOut(k).err
        /\ (Len(sResolvers) > 0 => sRet.err.kind = "join")
        /\ (Len(sCalls) > 0 /\ \A k \in 1..Len(sCalls) : IsNotFound(CallOut(k).err)) =>
              (AsDNSError(sRet.err) # Nil /\ AsDNSError(sRet.err).isNotFound
                 /\ AsDNSError(sRet.err).err = ErrNoSuchHost)

\* C7 witness: three resolvers failed, a server failure first and a NotFound after it.
C7_Witness ==
    /\ sKind = "Sequential" /\ sPc = "done" /\ Len(sCalls) = 3 /\ SeqAllFailed
    /\ CallOut(1).err = ServFail(1) /\ CallOut(2).err = NotFound(2)
    /\ Len(Unjoin(sRet.err)) = 3

\* C10: Sequential and RoundRobin constructed with an empty list return a
\* NotFound error from LookupNetIP, never a nil error with no addresses.
C10_EmptyListYieldsNotFound ==
    (sKind \in {"Sequential", "RoundRobin"} /\ sPc = "done" /\ sResolvers = <<>>) =>
        (sRet.err # Nil /\ IsNotFound(AsDNSError(sRet.err)))

\* C10, for Parallel: constructed with an empty list it returns a NotFound error.
C10_ParallelEmptyListYieldsNotFound ==
    (pMain = "done" /\ pN = 0 /\ callerCtx = Nil) =>
        (pRet.err # Nil /\ IsNotFound(AsDNSError(pRet.err)))

\* C2: if the parent context is never cancelled and some inner resolver
\* succeeded, Parallel returns no error and the address list of an inner
\* resolver that succeeded.
C2_ParallelReturnsASuccess ==
    (pMain = "done" /\ callerCtx = Nil /\ \E i \in ParTasks : pOut[i].err = Nil) =>
        /\ pRet.err = Nil
        /\ \E i \in ParTasks : pOut[i].err = Nil /\ pRet.addrs = pOut[i].addrs

\* C2 witness: resolver 1 failed, resolver 2 succeeded and its list was returned.
C2_Witness ==
    /\ pMain = "done" /\ callerCtx = Nil /\ pN = 2
    /\ pOut[1].err = NotFound(1) /\ pOut[2].err = Nil
    /\ pRet = Ok(MockAddrs(2))

\* C3: when Parallel.LookupNetIP returns, every task it spawned has finished;
\* stated here for the calls whose context is never done (a result or the
\* joined errors are returned), where the claim leaves no room for an early return.
C3_AllTasksFinishedAtReturn ==
    (pMain = "done" /\ callerCtx = Nil) => pHist.busyAtReturn = {}

\* C8: if the parent context is not cancelled and all inner resolvers fail,
\* Parallel returns the join of all their errors, and reads errs only when
\* every task has appended to it.
C8_ParallelJoinsEveryError ==
    (pMain = "done" /\ callerCtx = Nil /\ \A i \in ParTasks : pOut[i].err # Nil) =>
        /\ pSel.case = "closed"
        /\ pHist.busyAtReturn = {}
        /\ Len(Unjoin(pRet.err)) = pN
        /\ \A i \in ParTasks : \E j \in 1..pN : Unjoin(pRet.err)[j] = pOut[i].err
        /\ (pN > 0 => pRet.err.kind = "join")

\* C8 witness: two resolvers failed and both errors are in the returned error.
C8_Witness ==
    /\ pMain = "done" /\ callerCtx = Nil /\ pN = 2
    /\ pOut[1].err = NotFound(1) /\ pOut[2].err = ServFail(2)
    /\ pRet.err.kind = "join" /\ Len(pRet.err.errs) = 2

\* C9 as stated: if the parent context is done before any inner resolver has
\* succeeded (and before the select took a case), Parallel returns the
\* context's error.
C9_CtxErrorWheneverCancelledFirst ==
    (pMain = "done" /\ pN > 0 /\ pHist.cancelFirst) => pRet = Fail(callerCtx)

\* C9 amended: main never stays parked in the select once the context is done,
\* and when the done context was the only case of the select that could
\* proceed the call returns the context's error, whatever the tasks are doing.
C9_CtxErrorWhenOnlyCtxReady ==
    /\ pMain = "parked" => derivedCtx = Nil
    /\ (pMain = "done" /\ pHist.ctxAlone) => (callerCtx # Nil /\ pRet = Fail(callerCtx))

\* C9 witness: the context's error was returned while a task was still busy.
C9_Witness ==
    /\ pMain = "done" /\ pHist.ctxAlone /\ pRet = Fail(DeadlineExceeded)
    /\ pHist.busyAtReturn # {}

RetryTerminal(out) == out.err = Nil \/ ~isTemporary(out.err)
RetryAllTemporary == \A k \in 1..Len(rCalls) : ~RetryTerminal(rCalls[k])

\* C4: when the inner resolver fails every time with a temporary error and
\* the context is not cancelled, Retry with attempts = n > 0 (n = 2 for a nil
\* config) invokes it exactly n times and returns the last invocation's error.
C4_RetryExhaustsAttempts ==
    (rPc = "done" /\ callerCtx = Nil /\ RetryAttempts(rConf) > 0 /\ RetryAllTemporary) =>
        /\ Len(rCalls) = RetryAttempts(rConf)
        /\ rStarted = RetryAttempts(rConf)
        /\ (rConf.isNil => Len(rCalls) = 2)
        /\ rRet = Fail(Last(rCalls).err)

\* C4 witness: three attempts, the first and the last error differ.
C4_Witness ==
    /\ rPc = "done" /\ callerCtx = Nil /\ rConf = Conf(3) /\ RetryAllTemporary
    /\ Len(rCalls) = 3 /\ rCalls[1].err = ServFail(1) /\ rCalls[3].err = ServFail(2)
    /\ rRet = Fail(ServFail(2))

\* C5: Retry stops at the first inner outcome that is a success or a
\* non-temporary error and returns exactly it; it never invokes the inner
\* resolver more than attempts times (attempts > 0); NotFound on the first
\* attempt means one invocation.
C5_RetryStopsAtFirstTerminalOutcome ==
    (rPc \in {"inflight", "wait", "done"}) =>
        /\ \A k \in 1..(Len(rCalls) - 1) : ~RetryTerminal(rCalls[k])
        /\ (Len(rCalls) > 0 /\ RetryTerminal(Last(rCalls))) =>
              /\ rPc = "done"
              /\ rStarted = Len(rCalls)
              /\ rRet.err = Last(rCalls).err
              /\ (rRet.err = Nil => rRet.addrs = Last(rCalls).addrs)
        /\ (RetryAttempts(rConf) > 0 => rStarted <= RetryAttempts(rConf))
        /\ (Len(rCalls) > 0 /\ IsNotFound(rCalls[1].err)) =>
              (rPc = "done" /\ rStarted = 1 /\ rRet = Fail(rCalls[1].err))

\* C5 witness: a temporary failure, then NotFound, which is returned.
C5_Witness ==
    /\ rPc = "done" /\ rConf = Conf(3) /\ Len(rCalls) = 2
    /\ rCalls[1].err = ServFail(1) /\ rCalls[2].err = NotFound(1)
    /\ rRet = Fail(NotFound(1)) /\ rStarted = 2

\* C6: Retry never starts an inner lookup once the context is done, and a call
\* waiting between two attempts whose context is done does nothing but return
\* the context's error.
C6_RetryNoAttemptAfterCancel ==
    [][/\ (rStarted' = rStarted + 1) => (callerCtx = Nil /\ callerCtx' = Nil)
       /\ (rPc = "idle" /\ callerCtx # Nil /\ rPc' # "idle") =>
             (rPc' = "done" /\ rStarted' = 0 /\ rRet' = Fail(callerCtx))
       /\ (rPc = "wait" /\ callerCtx # Nil /\ rPc' # "wait") =>
             (rPc' = "done" /\ rStarted' = rStarted /\ rRet' = Fail(callerCtx))]_vars

\* C6 witness: cancelled between the first and the second of three attempts.
C6_Witness ==
    /\ rPc = "done" /\ rConf = Conf(3) /\ callerCtx = Canceled
    /\ Len(rCalls) = 1 /\ rCalls[1].err = ServFail(1) /\ rStarted = 1
    /\ rRet = Fail(Canceled)

\* ------------------------------------------------------------- RoundRobin
\* The positions of the call log at which resolver `id` was invoked.
CallsOf(id) == {k \in 1..Len(sCalls) : CallId(k) = id}

\* Resolver f failed and resolver g succeeded whenever they were invoked.
AlwaysFailsAlwaysSucceeds(f, g) ==
    /\ \A k \in CallsOf(f) : CallOut(k).err # Nil
    /\ \A k \in CallsOf(g) : CallOut(k).err = Nil

\* C11: a call of RoundRobin.LookupNetIP walks some permutation of the
\* configured list as Sequential does: each inner resolver is invoked at most
\* once, nothing is invoked after the first success, whose addresses are
\* returned; with two resolvers of which one always fails and the other always
\* succeeds the call succeeds and invokes the succeeding one exactly once; and
\* no step of a call changes the configured list.
C11_RoundRobinIsSequentialOverAPermutation ==
    /\ []((sKind \in ShufflingKinds /\ sPc \in {"loop", "done"}) =>
            /\ sOrder \in Shuffle(sResolvers)
            /\ Len(sCalls) <= Len(sOrder)
            /\ \A k \in 1..Len(sCalls) : CallId(k) = sOrder[k]
            /\ \A id \in Range(sResolvers) : Cardinality(CallsOf(id)) <= 1
            /\ \A k \in 1..(Len(sCalls) - 1) : CallOut(k).err # Nil
            /\ (Len(sCalls) > 0 /\ Last(sCalls)[2].err = Nil) =>
                  (sPc = "done" /\ sRet = Ok(Last(sCalls)[2].addrs))
            /\ \A f, g \in Range(sResolvers) :
                  (/\ sPc = "done" /\ Len(sResolvers) = 2 /\ f # g
                   /\ AlwaysFailsAlwaysSucceeds(f, g)) =>
                      (sRet = Ok(MockAddrs(g)) /\ Cardinality(CallsOf(g)) = 1))
    /\ [][(sKind \in ShufflingKinds) => (sResolvers' = sResolvers)]_vars

\* C11 witness: of two resolvers the shuffle put the second first; it failed,
\* the first one then succeeded, and the configured list is still <<1, 2>>.
C11_Witness ==
    /\ sKind = "RoundRobin" /\ sPc = "done"
    /\ sResolvers = <<1, 2>> /\ sOrder = <<2, 1>>
    /\ AlwaysFailsAlwaysSucceeds(2, 1) /\ Len(sCalls) = 2
    /\ sRet = Ok(MockAddrs(1))

\* C12: whenever a call of RoundRobin.LookupNetIP is about to start, whatever
\* the calls before it did, each inner resolver can be the one it tries first.
C12_EveryResolverCanBeFirstOnEveryCall ==
    (sKind \in ShufflingKinds /\ sPc = "idle") =>
        \A id \in Range(sResolvers) : ENABLED (SeqCall /\ sOrder'[1] = id)

\* C12 witness: a call over two resolvers that tried the second one first has
\* returned, and the next call is about to start.
C12_Witness ==
    /\ sKind \in ShufflingKinds /\ sPc = "idle" /\ sRet # NoRet
    /\ Len(sResolvers) = 2 /\ sOrder[1] = 2 /\ sCalls # <<>>

\* --------------------------------------------------------------- Relative
RelCallName(k) == rlCalls[k][1]
RelCallOut(k) == rlCalls[k][2]
RelAllFailed == \A k \in 1..Len(rlCalls) : RelCallOut(k).err # Nil

\* What the documentation of Relative says is tried: the fully-qualified host
\* when it ends in a dot or has at least ndots dots, else the host joined with
\* each search suffix.
RelDocumentedAbsolute == HasDotSuffix(rlHost) \/ CountDots(rlHost) >= rlNdots
RelDocumentedNames ==
    IF RelDocumentedAbsolute
    THEN <<Fqdn(rlHost)>>
    ELSE [i \in 1..Len(rlSearch) |-> JoinNames(rlHost, rlSearch[i])]

\* C13: Relative.LookupNetIP queries the inner resolver with the fully-qualified
\* host alone when the host ends in a dot or has at least ndots dots, and
\* otherwise with the host joined with each search suffix, in the configured
\* order, up to the first success; the host as given is never queried.
C13_RelativeQueriesDocumentedNames ==
    (rlPc \in {"loop", "done"}) =>
        /\ Len(rlCalls) <= Len(RelDocumentedNames)
        /\ \A k \in 1..Len(rlCalls) : RelCallName(k) = RelDocumentedNames[k]
        /\ \A k \in 1..(Len(rlCalls) - 1) : RelCallOut(k).err # Nil
        /\ (rlPc = "done" /\ RelAllFailed) => Len(rlCalls) = Len(RelDocumentedNames)
        /\ ~RelDocumentedAbsolute => \A k \in 1..Len(rlCalls) : RelCallName(k) # rlHost

\* The two ways C13 fails, each on its own: a host with a trailing dot gets the
\* search list applied, and a joined name that is no valid domain name is skipped.
RelTrailingDotIsAbsolute ==
    (rlPc \in {"loop", "done"} /\ HasDotSuffix(rlHost)) => rlNames = <<Fqdn(rlHost)>>
RelEverySuffixIsTried ==
    (rlPc = "done" /\ RelAllFailed /\ RelSearches(rlKind, rlHost, rlNdots)) =>
        Len(rlCalls) = Len(rlSearch)
RelJoinTrailingDotIsAbsolute == (rlKind = "RelativeJoin") => RelTrailingDotIsAbsolute
RelJoinQueriesDocumentedNames ==
    (rlKind = "RelativeJoin" /\ \A i \in 1..Len(rlSearch) : Len(rlSearch[i].labels) < 4)
        => C13_RelativeQueriesDocumentedNames

\* C14: when Relative.LookupNetIP made at least one attempt and all of them
\* failed, the returned error holds the error of the first attempt, and
\* errors.As finds a NotFound in it when that first error is one.
C14_RelativeKeepsFirstError ==
    (rlPc = "done" /\ Len(rlCalls) >= 1 /\ RelAllFailed) =>
        /\ rlRet.addrs = NoAddrs
        /\ rlRet.err # Nil
        /\ RelCallOut(1).err \in Range(Unjoin(rlRet.err))
        /\ IsNotFound(RelCallOut(1).err) => IsNotFound(AsDNSError(rlRet.err))

\* C14 witness: two candidate names were tried; the first answered NotFound,
\* the second with another error.
C14_Witness ==
    /\ rlPc = "done" /\ Len(rlCalls) = 2 /\ RelAllFailed
    /\ IsNotFound(RelCallOut(1).err) /\ ~IsNotFound(RelCallOut(2).err)

\* ------------------------------------------------------------------ DNS64
\* The number of times x occurs in the sequence s.
Count(x, s) == Cardinality({i \in 1..Len(s) : s[i] = x})
\* s and t hold the same elements, each as often: one is a permutation of the other.
IsPermutation(s, t) ==
    /\ Len(s) = Len(t)
    /\ \A x \in Range(s) \cup Range(t) : Count(x, s) = Count(x, t)

\* The IPv4 addresses of a list, in their four-byte form and their order, and
\* its native IPv6 addresses.
IPv4Of(addrs) ==
    LET v4 == SelectSeq(addrs, LAMBDA a : Is4(a) \/ Is4In6(a))
    IN  [i \in 1..Len(v4) |-> IF Is4(v4[i]) THEN v4[i] ELSE SubSeq(v4[i], 13, 16)]
NativeIPv6Of(addrs) == SelectSeq(addrs, LAMBDA a : Is6(a) /\ ~Is4In6(a))
LowBits(addrs) == [i \in 1..Len(addrs) |-> SubSeq(addrs[i], 13, 16)]
D64Answered == dPc = "done" /\ dInner.err = Nil

\* C15: for network "ip6" and an inner result of IPv4 addresses only, DNS64
\* returns one IPv6 address per IPv4 address: its bytes 0..11 are those of the
\* configured prefix (64:ff9b::/96 without a configuration), its bytes 12..15
\* the IPv4 address; 10.0.0.1 gives 64:ff9b::a00:1.
C15_DNS64EmbedsIPv4InPrefix ==
    (D64Answered /\ dNetwork = "ip6" /\ NativeIPv6Of(dInner.addrs) = <<>>) =>
        /\ dRet.err = Nil
        /\ Len(dRet.addrs) = Len(dInner.addrs)
        /\ \A k \in 1..Len(dRet.addrs) :
              /\ Is6(dRet.addrs[k])
              /\ SubSeq(dRet.addrs[k], 1, 12) =
                    SubSeq(IF dConf = D64NilConf THEN WellKnownPrefix ELSE dConf, 1, 12)
        /\ IsPermutation(LowBits(dRet.addrs), IPv4Of(dInner.addrs))
        /\ (dConf = D64NilConf /\ dInner.addrs = <<Addr4a>>) =>
              dRet.addrs = << <<0, 100, 255, 155, 0, 0, 0, 0, 0, 0, 0, 0, 10, 0, 0, 1>> >>

\* C15 witness: without a configuration, "ip6" and an inner answer of 10.0.0.1
\* alone gave 64:ff9b::a00:1.
C15_Witness ==
    /\ D64Answered /\ dNetwork = "ip6" /\ dConf = D64NilConf
    /\ dInner.addrs = <<Addr4a>>
    /\ dRet = Ok(<< <<0, 100, 255, 155, 0, 0, 0, 0, 0, 0, 0, 0, 10, 0, 0, 1>> >>)

\* C16: when the inner result holds a native IPv6 address, the result for
\* "ip6" is a permutation of the native IPv6 addresses: nothing is synthesized.
C16_DNS64NoSynthesisWithNativeIPv6 ==
    (D64Answered /\ dNetwork = "ip6" /\ NativeIPv6Of(dInner.addrs) # <<>>) =>
        /\ dRet.err = Nil
        /\ IsPermutation(dRet.addrs, NativeIPv6Of(dInner.addrs))

\* C16 witness: the inner answer held an IPv4 and a native IPv6 address, and
\* "ip6" returned the IPv6 address alone.
C16_Witness ==
    /\ D64Answered /\ dNetwork = "ip6"
    /\ dInner.addrs = <<Addr4a, Addr6a>>
    /\ dRet = Ok(<<Addr6a>>)

\* C17: DNS64 asks its inner resolver for network "ip" whatever the caller
\* asked for, and for "ip4" returns the IPv4 addresses of the inner result, in
\* the inner order, and nothing else.
C17_DNS64AsksIpAndPassesIPv4 ==
    /\ (dPc # "idle") => dInnerNetwork = "ip"
    /\ (D64Answered /\ dNetwork = "ip4") => dRet = Ok(IPv4Of(dInner.addrs))

\* C17 witness: "ip4" with an inner answer of an IPv6 address followed by two
\* IPv4 addresses returned the two, in that order.
C17_Witness ==
    /\ D64Answered /\ dNetwork = "ip4" /\ dInnerNetwork = "ip"
    /\ dInner.addrs = <<Addr4b, Addr4a>>
    /\ dRet = Ok(<<Addr4b, Addr4a>>)

\* ------------------------------------------------------- PreferredAddress
\* C18: PreferredAddress returns the inner error as it is when the inner
\* lookup fails, and otherwise a permutation of the inner address list, also
\* when every probe fails; for network "ip4" the list is returned in the inner order.
C18_PreferredAddressPermutes ==
    (paPc = "done") =>
        /\ (paInner.err # Nil) => paRet = Fail(paInner.err)
        /\ (paInner.err = Nil) =>
              /\ paRet.err = Nil
              /\ IsPermutation(paRet.addrs, paInner.addrs)
        /\ (paInner.err = Nil /\ paNetwork = "ip4") => paRet.addrs = paInner.addrs

\* C18 witness: for network "ip" every probe failed, and both addresses of the
\* inner answer are returned.
C18_Witness ==
    /\ paPc = "done" /\ paNetwork = "ip" /\ paInner.err = Nil
    /\ Len(paInner.addrs) = 2 /\ paInner.addrs[1] # paInner.addrs[2]
    /\ \A a \in Range(paInner.addrs) : paSrcs[a] = NoSource
    /\ Len(paRet.addrs) = 2

\* --------------------------------------------------------- SortByRFC6724
\* Neither of the two addresses is preferred to the other.
Ties(srcs, a, b) == ~Less(srcs, a, b) /\ ~Less(srcs, b, a)
\* Where the element at input position i ended up.
SortedPos(i) == CHOOSE k \in 1..Len(soPerm) : soPerm[k] = i

\* C19: SortByRFC6724 is a stable sort: with the same probe results, sorting
\* its result again changes nothing, and addresses of which neither is
\* preferred to the other keep the order they came in.
C19_SortIsStableAndIdempotent ==
    /\ (soPc \in {"once", "twice"}) =>
          /\ IsPermutation(soOnce, soAddrs)
          /\ \A i, j \in 1..Len(soAddrs) :
                (i < j /\ Ties(soSrcs, soAddrs[i], soAddrs[j])) =>
                    SortedPos(i) < SortedPos(j)
          /\ \A k \in 1..(Len(soOnce) - 1) : ~Less(soSrcs, soOnce[k + 1], soOnce[k])
    /\ (soPc = "twice") => soTwice = soOnce

\* C19 witness: a list of three addresses was reordered by the sort, two of
\* them tie, and the result has been sorted a second time.
C19_Witness ==
    /\ soPc = "twice" /\ Len(soAddrs) = 3 /\ soOnce # soAddrs
    /\ \E i, j \in 1..3 : i < j /\ soAddrs[i] # soAddrs[j]
                          /\ Ties(soSrcs, soAddrs[i], soAddrs[j])

\* ------------------------------------------------------------------ Hosts
\* Caller t has a result of LookupNetIP for network "ip", and no AddHost or
\* RemoveHost wrote the entry of its name since the call began.
HostsLookedUpQuietly(t) ==
    /\ hCaller[t].op = "LookupNetIP" /\ hCaller[t].pc = "done"
    /\ hCaller[t].network = "ip" /\ ~hCaller[t].disturbed

\* C20: a LookupNetIP for network "ip" of a name whose entry was last set by
\* AddHost(name, addrs), the name written with or without its trailing dot in
\* either call, succeeds with those addresses, each as often as given; after a
\* RemoveHost(name) it fails with NotFound; calls on other names change nothing.
C20_LookupSeesLastAddOrRemove ==
    \A t \in HostsCallers :
        HostsLookedUpQuietly(t) =>
            LET last == hLast[Fqdn(hCaller[t].host)] IN
            /\ (last.op = "AddHost") =>
                  /\ hCaller[t].ret.err = Nil
                  /\ IsPermutation(hCaller[t].ret.addrs, last.addrs)
            /\ (last.op = "RemoveHost") =>
                  /\ hCaller[t].ret.addrs = NoAddrs
                  /\ IsNotFound(hCaller[t].ret.err)

\* C20 witness: the first caller looked the name up, written with its dot,
\* after an AddHost of two addresses for the name written without, and got
\* both; the name was then removed and the second caller's lookup found
\* nothing; the other name's entry has been written in between.
C20_Witness ==
    /\ hCaller[1].op = "LookupNetIP" /\ hCaller[1].pc = "done"
    /\ hCaller[1].host = HostApiDot /\ hCaller[1].network = "ip"
    /\ hCaller[1].ret.err = Nil /\ Len(hCaller[1].ret.addrs) = 2
    /\ HostsLookedUpQuietly(2) /\ hCaller[2].host = HostApi
    /\ hLast[Fqdn(HostApi)].op = "RemoveHost"
    /\ IsNotFound(hCaller[2].ret.err)
    /\ hLast[Fqdn(HostOther)].op = "AddHost"

\* The entries a lookup may see: none, or a whole list given to AddHost or
\* read from the hosts file at construction.
HostsWholeEntries == {Absent} \cup {Entry(a) : a \in HostsAddrLists \cup {HostsFileAddrs}}

\* C21: AddHost, RemoveHost and LookupNetIP run concurrently on one Hosts
\* resolver: whoever writes the table holds the write lock, which excludes
\* every reader; whoever reads holds the read lock; and what a lookup read for
\* its name is no entry or the whole list of one AddHost or of construction,
\* never an entry that is being changed.
C21_HostsTableIsSerialized ==
    /\ (hMu.writer # 0) => (hMu.readers = {})
    /\ \A t \in HostsCallers :
        /\ (hCaller[t].pc \in {"write", "writing", "Unlock"}) => (hMu.writer = t)
        /\ (hCaller[t].pc \in {"read", "RUnlock"}) => (t \in hMu.readers)
        /\ (hCaller[t].op = "LookupNetIP" /\ hCaller[t].pc \in {"RUnlock", "answer", "done"})
              => (hCaller[t].got \in HostsWholeEntries)
    /\ (\E k \in HostsKeys : hTable[k] = Torn) =>
          (\E t \in HostsCallers : hCaller[t].pc = "writing")

\* C21 witness: the first caller is in the middle of AddHost's assignment while
\* the second, looking the same name up, waits for the read lock; the second
\* caller's previous call was a lookup too, so the table was read before.
C21_Witness ==
    /\ hCaller[1].op = "AddHost" /\ hCaller[1].pc = "writing"
    /\ hCaller[2].op = "LookupNetIP" /\ hCaller[2].pc = "RLock"
    /\ Fqdn(hCaller[1].host) = Fqdn(hCaller[2].host)
    /\ hTable[HostsKey(hCaller[1].host)] = Torn
    /\ hLast[Fqdn(hCaller[1].host)].op = "RemoveHost"

\* C22: Hosts.LookupNetIP for a name that is in the table but has no address
\* of the requested family fails with NotFound.
C22_HostsNoAddressOfFamilyIsNotFound ==
    \A t \in HostsCallers :
        (/\ hCaller[t].op = "LookupNetIP" /\ hCaller[t].pc = "done"
         /\ hCaller[t].got.ok /\ hCaller[t].network \in Networks
         /\ FilterByNetwork(hCaller[t].got.addrs, hCaller[t].network) = <<>>)
        => (hCaller[t].ret.err # Nil /\ IsNotFound(hCaller[t].ret.err))

\* ---------------------------------------------------------------- Literal
\* What the host of the call is, told from its text alone.
LitHostIsLocalhost == litHost \in {Localhost, LocalhostDot}
LitLiteral == ParseAddr(litHost)
LitDone == litPc = "done" /\ litNetwork \in Networks

\* The family of an address as netip tells it: an IPv4-mapped IPv6 address is
\* an IPv6 address.
FamilyOf(a) == IF Is4(a) THEN "ip4" ELSE "ip6"
OfFamily(a, network) == network = "ip" \/ network = FamilyOf(a)
\* The same, with an IPv4-mapped IPv6 address counted as an IPv4 address too.
OfFamilyOrMapped(a, network) ==
    OfFamily(a, network) \/ (network = "ip4" /\ Is4In6(a))

\* [::1, 127.0.0.1] filtered to the requested family.
LoopbacksOf(network) ==
    CASE network = "ip" -> <<IPv6Loopback, Loopback4>>
      [] network = "ip4" -> <<Loopback4>>
      [] network = "ip6" -> <<IPv6Loopback>>

\* The repeated lookup returned what the first one returned.
LitRepeatable == (litPc = "done" /\ litRound = 2) => (litRet = litOnce)

\* C23 as stated: localhost (with or without the dot) yields [::1, 127.0.0.1]
\* filtered to the family; an IP literal of the requested family yields exactly
\* the parsed address; every other host yields NotFound; a repeated lookup
\* returns the identical result.  For an IPv4-mapped IPv6 literal and "ip4",
\* which may or may not count as "of the requested family", either of the two
\* documented outcomes is accepted.
C23_LiteralAsStated ==
    /\ LitRepeatable
    /\ LitDone =>
        IF LitHostIsLocalhost THEN litRet = Ok(LoopbacksOf(litNetwork))
        ELSE IF LitLiteral.ok /\ OfFamily(LitLiteral.addr, litNetwork)
        THEN litRet = Ok(<<LitLiteral.addr>>)
        ELSE IF LitLiteral.ok /\ OfFamilyOrMapped(LitLiteral.addr, litNetwork)
        THEN litRet \in {Ok(<<LitLiteral.addr>>), Fail(SynthesizedNotFound)}
        ELSE litRet = Fail(SynthesizedNotFound)

\* C23, amended: as stated, except that for "ip4" an IPv4-mapped IPv6 literal
\* counts as an IPv4 address and is returned unmapped, and that a network
\* outside "ip", "ip4", "ip6" yields UnsupportedNetwork whatever the host.
C23_LiteralLookup ==
    /\ LitRepeatable
    /\ LitDone =>
        IF LitHostIsLocalhost THEN litRet = Ok(LoopbacksOf(litNetwork))
        ELSE IF LitLiteral.ok /\ OfFamilyOrMapped(LitLiteral.addr, litNetwork)
        THEN litRet = Ok(<<IF litNetwork = "ip4" THEN Unmap(LitLiteral.addr)
                           ELSE LitLiteral.addr>>)
        ELSE litRet = Fail(SynthesizedNotFound)
    /\ (litPc = "done" /\ litNetwork \notin Networks) =>
        (litRet.err # Nil /\ litRet.err.err = ErrUnsupportedNetwork)

\* C23 witness: "::ffff:10.0.0.1" was looked up twice for "ip4" and both
\* lookups returned 10.0.0.1.
C23_Witness ==
    /\ litPc = "done" /\ litRound = 2 /\ litNetwork = "ip4"
    /\ LitLiteral.ok /\ Is4In6(LitLiteral.addr)
    /\ litOnce = Ok(<<Addr4a>>) /\ litRet = litOnce

\* -------------------------------------------------------------------- DNS
\* The queries of this attempt that got a reply, and the errors in sight.
DnsReplied(q) == dnsEv[q].ev \in Rcodes
DnsErrorsInSight ==
    {dnsEv[q].res.err : q \in AllQTypes} \cup {dnsErr, dnsOut.err, dnsRet.err}
    \cup {dnsCalls[k].err : k \in 1..Len(dnsCalls)}
NotFoundAndTemporary(e) == e.kind = "dns" /\ e.isNotFound /\ e.isTemporary

\* C24: the DNS client classifies a reply by its response code: success yields
\* the reply's records; name-error yields NotFound with isNotFound set and
\* isTemporary unset; any other code yields ServerMisbehaving, temporary
\* exactly for SERVFAIL; no error is both NotFound and temporary.
C24_ReplyClassifiedByRcode ==
    /\ \A q \in AllQTypes :
        DnsReplied(q) =>
            LET e == dnsEv[q] IN
            CASE e.ev = RcodeSuccess -> e.res = Ok(e.answer)
              [] e.ev = RcodeNameError ->
                    /\ e.res.addrs = NoAddrs /\ e.res.err.kind = "dns"
                    /\ e.res.err.err = ErrNoSuchHost
                    /\ e.res.err.isNotFound /\ ~e.res.err.isTemporary
              [] OTHER ->
                    /\ e.res.addrs = NoAddrs /\ e.res.err.kind = "dns"
                    /\ e.res.err.err = ErrServerMisbehaving
                    /\ ~e.res.err.isNotFound
                    /\ e.res.err.isTemporary <=> (e.ev = RcodeServerFailure)
    /\ \A e \in DnsErrorsInSight : ~NotFoundAndTemporary(e)

\* C24 witness: in one attempt the A query was refused and the AAAA query got
\* SERVFAIL.
C24_Witness ==
    /\ dnsEv["A"].ev = RcodeRefused /\ ~dnsEv["A"].res.err.isTemporary
    /\ dnsEv["AAAA"].ev = RcodeServerFailure /\ dnsEv["AAAA"].res.err.isTemporary

\* What an attempt's error came from.
DnsIsHandshakeFailure(e) == e.kind = "dns" /\ e.err = "handshake"
DnsIsDialOrExchangeFailure(e) == e.kind = "dns" /\ e.err \in {"dial", "exchange"}

\* C25: a dial failure and an exchange failure are temporary, a TLS handshake
\* failure is not; so Retry calls the client again after an attempt that a
\* dial or exchange failure ended, while attempts are left, and never after
\* one that a handshake failure ended.
C25_DialAndExchangeTemporaryHandshakeNot ==
    /\ \A q \in AllQTypes :
        /\ (dnsEv[q].ev \in {"dial failed", "exchange failed"}) => dnsEv[q].res.err.isTemporary
        /\ (dnsEv[q].ev = "handshake failed") => ~dnsEv[q].res.err.isTemporary
    /\ \A k \in 1..Len(dnsCalls) :
        /\ DnsIsHandshakeFailure(dnsCalls[k].err) =>
              /\ k = Len(dnsCalls) /\ dnsPc = "done" /\ dnsRet = dnsCalls[k]
        /\ (DnsIsDialOrExchangeFailure(dnsCalls[k].err) /\ k < RetryAttempts(NilConf)) =>
              ~(dnsPc = "done" /\ Len(dnsCalls) = k)

\* C25 witness: the first attempt was ended by a dial failure and the client
\* was called again; the second one was ended by a handshake failure.
C25_Witness ==
    /\ Len(dnsCalls) = 2 /\ dnsPc = "done"
    /\ dnsCalls[1].err.kind = "dns" /\ dnsCalls[1].err.err = "dial"
    /\ DnsIsHandshakeFailure(dnsCalls[2].err)

\* C26: for a host that is no domain name LookupNetIP returns NotFound, and
\* for a domain name with a network outside "ip", "ip4", "ip6" it returns
\* UnsupportedNetwork; in both cases nothing is dialed, no query is sent, the
\* error is not temporary and Retry makes the one attempt only.
C26_InvalidHostOrNetworkFailsWithoutIO ==
    (dnsHost = DnsHostInvalid \/ dnsNetwork \notin Networks) =>
        /\ dnsLog = DnsNoLog
        /\ Len(dnsCalls) <= 1
        /\ \A k \in 1..Len(dnsCalls) :
            /\ dnsPc = "done" /\ dnsRet = dnsCalls[k]
            /\ dnsCalls[k].addrs = NoAddrs
            /\ dnsCalls[k].err.kind = "dns" /\ ~dnsCalls[k].err.isTemporary
            /\ IF dnsHost = DnsHostInvalid THEN IsNotFound(dnsCalls[k].err)
               ELSE dnsCalls[k].err.err = ErrUnsupportedNetwork
        /\ (dnsPc \notin {"idle", "enter"}) => (dnsOut.err.kind = "dns")

\* C26 witness: a lookup of the text with the over-long label for "ip" is
\* over, with NotFound.
C26_Witness ==
    /\ dnsPc = "done" /\ dnsHost = DnsHostInvalid /\ dnsNetwork = "ip"
    /\ IsNotFound(dnsRet.err) /\ dnsLog = DnsNoLog

\* An attempt for network "ip" has returned.
DnsIpAttemptOver == dnsPc = "returned" /\ dnsNetwork = "ip" /\ dnsHost = DnsHostValid

\* C27: for network "ip", when one of the two queries failed and the other
\* returned an address, LookupNetIP succeeds with the collected addresses; an
\* error is returned only when no address was collected.
C27_PartialFailureStillSucceeds ==
    DnsIpAttemptOver =>
        IF dnsAddrs # <<>>
        THEN dnsOut.err = Nil /\ IsPermutation(dnsOut.addrs, dnsAddrs)
        ELSE dnsOut.err # Nil

\* The same for the older client alone (src/resolver.go), which keeps the
\* first error and goes on.
DnsOlderClientPartialFailureSucceeds ==
    (dnsConf.kind = "Resolver") => C27_PartialFailureStillSucceeds

\* ------------------------------------------------------------- LookupHost
\* The text of the addresses the inner resolvers answer with.
TextOf(a) ==
    CASE a = Addr4a -> "10.0.0.1"
      [] a = Addr6a -> "2001:db8::10"
      [] a = Addr4aMapped -> "::ffff:10.0.0.1"

\* What LookupHost has to return when LookupNetIP for "ip" returns `ret`.
AsLookupHost(ret) ==
    IF ret.err = Nil THEN Ok([i \in 1..Len(ret.addrs) |-> TextOf(ret.addrs[i])])
    ELSE Fail(ret.err)

\* C28: LookupHost fails exactly when LookupNetIP for "ip" fails, with the
\* same error, and else returns the text of each address of that result in
\* the same order; Chain and Retry (and RoundRobin, when both calls draw the
\* same order), which call the inner LookupHost, keep this up when the inner
\* resolvers do.
C28_LookupHostIsLookupNetIPAsText ==
    (lhPc = "done" /\ lhHostOrder = lhOrder) => (lhHostRet = AsLookupHost(lhIpRet))

\* C28 witness: Chain over three resolvers: the first two failed with
\* different errors and the third answered two addresses; LookupHost returned
\* their texts.
C28_Witness ==
    /\ lhPc = "done" /\ lhConf = [kind |-> "Chain", n |-> 3]
    /\ lhScript[1].err # Nil /\ lhScript[2].err # Nil
    /\ lhScript[1].err.err # lhScript[2].err.err
    /\ lhIpRet = Ok(<<Addr6a, Addr4aMapped>>)
    /\ lhHostRet = Ok(<<"2001:db8::10", "::ffff:10.0.0.1">>)

\* ------------------------------------------------------------------ System
SysDone == sysPc = "done"
SysOuterList == <<"Literal", "Hosts", "DNS">>
\* The outer list is walked from its front: what has been asked is a prefix of it.
SysConsultedInOrder ==
    /\ Len(sysTrace) <= Len(SysOuterList)
    /\ sysTrace = SubSeq(SysOuterList, 1, Len(sysTrace))
    /\ (sysCalls # <<>> => sysTrace = SysOuterList)
\* The host is the text of an IP address; the host is a name of the hosts file.
SysHostIsLiteral == ParseAddr(sysHost).ok
SysHostInTable == Fqdn(sysHost) = Fqdn(HostApi)
\* The literal is an address of a family the network asks for.
SysLiteralOfFamily ==
    /\ SysHostIsLiteral
    /\ sysNetwork \in Networks
    /\ OfFamilyOrMapped(ParseAddr(sysHost).addr, sysNetwork)
\* The servers of the pass under way were asked in the configured order, or in
\* some order without a repetition.
SysPassSequential == sysPass = SubSeq(SysServers, 1, Len(sysPass))
SysPassShuffled ==
    /\ Range(sysPass) \subseteq Range(SysServers)
    /\ \A i, j \in 1..Len(sysPass) : i # j => sysPass[i] # sysPass[j]
SysServersAsConfigured ==
    IF sysConf.rotate THEN SysPassShuffled ELSE SysPassSequential

\* C29 as stated: System consults Literal, then the hosts table, then DNS; a
\* lookup of an IP literal or of a name of the hosts table returns without any
\* DNS resolver invoked; the servers are walked through RoundRobin when rotate
\* is set and through Sequential otherwise.
C29_SystemAsStated ==
    /\ SysConsultedInOrder
    /\ (SysDone /\ (SysHostIsLiteral \/ SysHostInTable)) => (sysCalls = <<>>)
    /\ SysServersAsConfigured

\* C29, amended: System consults Literal, then the hosts table, then DNS; an IP
\* literal of a family the network (ip, ip4, ip6) asks for is answered by
\* Literal alone, and a name of the hosts table looked up with network ip, ip4
\* or ip6 is answered by Literal and the hosts table alone, in both cases with
\* no DNS resolver invoked; every other lookup goes on to the DNS resolvers,
\* whose servers are walked in the configured order when rotate is not set and
\* in a shuffled order when it is.
C29_SystemConsultsInOrder ==
    /\ SysConsultedInOrder
    /\ (SysDone /\ SysLiteralOfFamily) =>
            (sysTrace = <<"Literal">> /\ sysCalls = <<>> /\ sysRet.err = Nil)
    /\ (SysDone /\ SysHostInTable /\ sysNetwork \in Networks) =>
            (sysTrace = <<"Literal", "Hosts">> /\ sysCalls = <<>> /\ sysRet.err = Nil)
    /\ (SysDone /\ ~SysLiteralOfFamily /\ sysHost # Localhost
                /\ ~(SysHostInTable /\ sysNetwork \in Networks)) =>
            (sysTrace = SysOuterList /\ sysCalls # <<>>)
    /\ SysServersAsConfigured

\* An IPv4 literal looked up with network "ip4" has been answered, rotate set.
C29_Witness ==
    /\ SysDone /\ sysHost = HostLiteral4 /\ sysNetwork = "ip4"
    /\ sysRet = Ok(<<Addr4a>>) /\ sysCalls = <<>> /\ sysTrace = <<"Literal">>
\* A lookup that reached the DNS servers walked them in another order than the
\* configured one.
SysShuffledPassSeen == sysConf.rotate /\ Len(sysPass) = Len(SysServers) /\ sysPass # SysServers
\* A name of the hosts table has been answered from it.
SysHostsAnswerSeen == SysDone /\ sysHost = HostApi /\ sysRet = Ok(HostsFileAddrs)

\* ------------------------------------------------- Retry with attempts = 0
\* Attempts as the configuration gives it: 0, or a positive number (the default
\* when there is no configuration).
RetryForever == ~rConf.isNil /\ rConf.attempts = 0
RetryBounded == rConf.isNil \/ rConf.attempts > 0
RetryRunning == rPc \in {"inflight", "wait"}
\* The inner resolver has just returned `out`.
RetryInnerReturned(out) == rCalls' = Append(rCalls, out)

\* With attempts = 0 a call that has returned returned a success or an error
\* that is not temporary (the context's error is one), never a temporary error.
RetryForeverNeverGivesUp ==
    (RetryForever /\ rPc = "done") =>
        \/ rRet.err = Nil
        \/ ~isTemporary(rRet.err)
\* With attempts = 0, after a temporary error and with the context not done,
\* the next step is another call of the inner resolver.
RetryForeverGoesOn ==
    (RetryForever /\ rPc = "wait" /\ callerCtx = Nil /\ rStarted < MaxCalls) =>
        /\ ENABLED RetryWaitTimer
        /\ ~ENABLED RetryWaitCtx
RetryForeverNextIsInner ==
    [][(RetryForever /\ rPc = "wait" /\ callerCtx = Nil /\ rPc' # "wait")
           => (rPc' = "inflight" /\ rStarted' = rStarted + 1)]_vars
\* With attempts = 0 the call returns at once when the inner resolver succeeds
\* or fails for good, and between attempts when the context is done.
RetryForeverStops ==
    [][/\ (RetryForever /\ \E out \in RetryOutcomes(callerCtx) :
                RetryInnerReturned(out) /\ RetryTerminal(out))
            => (rPc' = "done" /\ rRet' = Last(rCalls'))
       /\ (RetryForever /\ rPc = "wait" /\ callerCtx # Nil /\ rPc' # "wait")
            => (rPc' = "done" /\ rRet' = Fail(callerCtx))]_vars
\* A call under way whose context is done returns; a call with attempts > 0 returns.
RetryCancelledReturns == (RetryRunning /\ callerCtx # Nil) ~> (rPc = "done")
RetryBoundedReturns == (RetryBounded /\ RetryRunning) ~> (rPc = "done")

\* C30: with attempts = 0 Retry calls the inner resolver again after every
\* temporary error while the context is not done and never gives up by itself;
\* it returns as soon as the inner resolver succeeds or returns an error that
\* is not temporary, or the context is done; with attempts > 0 every call
\* returns, given that every call of the inner resolver does.
C30_RetryForeverUnlessTerminal ==
    /\ []RetryForeverNeverGivesUp
    /\ []RetryForeverGoesOn
    /\ RetryForeverNextIsInner
    /\ RetryForeverStops
    /\ RetryCancelledReturns
    /\ RetryBoundedReturns

\* With attempts = 0, more calls than any configured number of attempts have
\* failed temporarily and one more is under way.
C30_Witness ==
    /\ RetryForever /\ rPc = "inflight" /\ callerCtx = Nil
    /\ Len(rCalls) = MaxCalls - 1
    /\ \A k \in 1..Len(rCalls) : rCalls[k].err # Nil /\ isTemporary(rCalls[k].err)

\* ---------------------------------------------- Sequential and cancellation
\* C31: once the context is done, Sequential.LookupNetIP invokes no further
\* inner resolver and returns the context's error as it is.
C31_CancelIsTerminalForSequential ==
    [][(sKind = "Sequential" /\ sPc = "loop" /\ callerCtx # Nil) =>
          /\ sCalls' = sCalls
          /\ (sPc' = "done" => sRet' = Fail(callerCtx))]_vars

\* -------------------------------------------------- Parallel and its tasks
ParAllTasksOver == \A i \in ParTasks : pTask[i] = "done"
\* C32: every task that Parallel.LookupNetIP spawned terminates, and so does
\* the goroutine that closes results, given that every inner lookup returns.
C32_EveryTaskTerminates ==
    (pMain = "done") ~> (ParAllTasksOver /\ pCloser = "done")
\* The calls that return the joined errors do leave nothing behind.
ParJoinedReturnLeavesNothing ==
    (pMain = "done" /\ pSel.case = "closed") ~> (ParAllTasksOver /\ pCloser = "done")
\* A task is blocked in its send after the call has returned.
ParTaskLeaked == pMain = "done" /\ \E i \in ParTasks : pTask[i] = "blocked"

\* ------------------------------------------------ the queries of one lookup
DnsNewClient == dnsConf.kind = "DNS"
\* The query types the claim names for a network.
QueriesFor(network) ==
    CASE network = "ip4" -> {"A"}
      [] network = "ip6" -> {"AAAA"}
      [] network = "ip" -> {"A", "AAAA"}
      [] OTHER -> {}
\* No type is dialed or sent twice, none that the network does not ask for is
\* dialed, and a query is sent on a connection dialed for it.
DnsAtMostOneQueryEach ==
    \A q \in AllQTypes :
        /\ dnsConn[q].dials <= 1
        /\ dnsConn[q].sent <= dnsConn[q].dials
        /\ (q \notin QueriesFor(dnsNetwork)) => dnsConn[q].dials = 0
\* A lookup in which no query failed has sent each of its queries.
DnsEveryQuerySent ==
    (dnsPc = "returned" /\ dnsHost = DnsHostValid /\ dnsNetwork \in Networks /\ dnsErr = Nil) =>
        \A q \in QueriesFor(dnsNetwork) : dnsConn[q].dials = 1 /\ dnsConn[q].sent = 1
\* With singleRequest the AAAA connection is dialed when the A exchange is over.
DnsSingleRequestInTurn ==
    (dnsConf.singleRequest /\ dnsNetwork = "ip" /\ dnsConn["AAAA"].dials > 0) =>
        (dnsQ["A"] = "end" /\ dnsEv["A"].ev = RcodeSuccess)
\* Without it a query that has not begun can begin whatever the other one does.
DnsQueriesIndependent ==
    \A q \in AllQTypes :
        (~dnsConf.singleRequest /\ dnsPc = "queries" /\ dnsNetwork = "ip" /\ dnsQ[q] = "off") =>
            ENABLED DnsDial(q)
\* The result of a lookup without singleRequest holds what both replies held.
DnsBothAnswersKept ==
    (~dnsConf.singleRequest /\ dnsPc = "returned" /\ dnsOut.err = Nil) =>
        /\ Len(dnsOut.addrs) = Len(dnsEv["A"].answer) + Len(dnsEv["AAAA"].answer)
        /\ Range(dnsOut.addrs) = Range(dnsEv["A"].answer) \cup Range(dnsEv["AAAA"].answer)

DnsEmptySuccessReplies ==
    /\ dnsPc = "returned" /\ dnsHost = DnsHostValid /\ dnsNetwork \in Networks
    /\ \A q \in QueriesFor(dnsNetwork) :
          /\ dnsEv[q].ev = RcodeSuccess
          /\ \A i \in 1..Len(dnsEv[q].section) : dnsEv[q].section[i].type = "CNAME"

\* C35: when every query of a lookup gets a success reply and no A or AAAA
\* record is collected, DNS.LookupNetIP returns a NotFound error that is not
\* temporary, not an empty success.
C35_NoRecordIsNotFound ==
    (DnsNewClient /\ DnsEmptySuccessReplies) =>
        /\ dnsOut.addrs = <<>>
        /\ dnsOut.err # Nil
        /\ dnsOut.err.kind = "dns"
        /\ dnsOut.err.err = ErrNoSuchHost
        /\ dnsOut.err.isNotFound /\ ~dnsOut.err.isTemporary

\* The A reply was empty and the AAAA reply held an alias only.
C35_Witness ==
    /\ DnsNewClient /\ DnsEmptySuccessReplies /\ dnsNetwork = "ip"
    /\ dnsEv["A"].section = <<>> /\ dnsEv["AAAA"].section = <<Cname>>
    /\ IsNotFound(dnsOut.err)

\* ------------------------------------------------------------- connections
\* The query type q is not inside tryOneName.
DnsOutsideTryOneName(q) == dnsQ[q] \in {"off", "end"}
DnsNoConnectionOpen == \A q \in AllQTypes : dnsConn[q].conn # "open"

\* C36: every connection that tryOneName dials is closed when tryOneName
\* returns, whatever the way it returns, and a lookup begins with no
\* connection and nothing else left of the lookup before it.
C36_EveryConnectionClosed ==
    /\ \A q \in AllQTypes : DnsOutsideTryOneName(q) => dnsConn[q].conn # "open"
    /\ (dnsPc \in {"returned", "done", "idle", "enter"}) => DnsNoConnectionOpen
    /\ (dnsPc = "idle") =>
          /\ dnsConn = DnsNoConns /\ dnsAddrs = <<>> /\ dnsErr = Nil
          /\ dnsQ = DnsNoQueries

\* A TLS handshake failed on the A connection and tryOneName has returned.
C36_Witness ==
    /\ dnsEv["A"].ev = "handshake failed" /\ dnsQ["A"] = "end"
    /\ dnsConn["A"] = [dials |-> 1, sent |-> 0, conn |-> "closed"]

\* ------------------------------------------- System: Retry and Relative
\* The name of the k-th invocation of a DNS resolver.
SysCallName(k) == sysCalls[k][2]
\* C34: in the resolver built by System, when the DNS lookups of a relative
\* name keep failing with temporary errors, every candidate name has been
\* tried once before any candidate is tried a second time.
C34_EveryCandidateBeforeASecondTry ==
    \A i, j \in 1..Len(sysCalls) :
        (i < j /\ sysCalls[i] = sysCalls[j]) =>
            \A n \in 1..Len(sysNames) :
                \E k \in 1..(j - 1) : SysCallName(k) = sysNames[n]
\* The first candidate was asked for at every server twice, the second not yet.
SysFirstCandidateRetried ==
    /\ Len(sysNames) = 2 /\ sysNameI = 0 /\ sysN = 1
    /\ \A k \in 1..Len(sysCalls) : SysCallName(k) = sysNames[1]
    /\ Len(sysCalls) > Len(SysServers)

\* ------------------------------------------- Relative without a candidate
\* C37: Relative.LookupNetIP never returns a nil error together with no
\* addresses; when no candidate name is attempted it returns a NotFound error.
C37_RelativeNeverEmptySuccess ==
    (rlPc = "done") =>
        /\ ~(rlRet.err = Nil /\ rlRet.addrs = <<>>)
        /\ (rlCalls = <<>>) => IsNotFound(rlRet.err)
\* The older relativeResolver, which keeps the first error, does as the claim says.
RelFirstErrNeverEmptySuccess ==
    (rlKind = "RelativeFirstErr" /\ rlPc = "done") =>
        /\ ~(rlRet.err = Nil /\ rlRet.addrs = <<>>)
        /\ (rlCalls = <<>>) => IsNotFound(rlRet.err)
\* A lookup has returned without a candidate name having been attempted.
RelNoCandidateSeen == rlPc = "done" /\ rlCalls = <<>> /\ rlKind = "RelativeFirstErr"

\* --------------------------------------------- DNS64 and an empty result
\* C38: a successful DNS64.LookupNetIP never returns an empty address list;
\* for "ip4" with only IPv6 addresses from the inner resolver it fails with
\* NotFound.
C38_DNS64NeverEmptySuccess ==
    (dPc = "done") =>
        /\ (dRet.err = Nil) => dRet.addrs # <<>>
        /\ (dNetwork = "ip4" /\ dInner.err = Nil /\ D64IPv4Addrs(dInner.addrs) = <<>>) =>
              IsNotFound(dRet.err)
\* For the other networks a successful lookup of a non-empty inner list does
\* return addresses.
D64OtherNetworksNeverEmpty ==
    (dPc = "done" /\ dNetwork # "ip4" /\ dRet.err = Nil /\ dInner.addrs # <<>>) =>
        dRet.addrs # <<>>
\* "ip4" was asked for, the inner resolver returned IPv6 addresses only.
D64OnlyIPv6ForIP4Seen ==
    /\ dPc = "done" /\ dNetwork = "ip4" /\ dInner.err = Nil
    /\ dInner.addrs # <<>> /\ D64IPv4Addrs(dInner.addrs) = <<>>
    /\ dRet = Ok(<<>>)

\* ------------------------------------------------- Hosts: ephemeral entries
\* The hosts file defined the name: a lookup that is still held returned the
\* address only the file gives it.
HostsFileEntrySeen(t) ==
    /\ hCaller[t].op = "LookupNetIP" /\ hCaller[t].pc = "done"
    /\ hCaller[t].ret.err = Nil /\ hCaller[t].ret.addrs = HostsFileAddrs

\* The address of the hosts file is in the table's entry of the name.
HostsStaticIn(name) ==
    \E i \in 1..Len(hTable[name].addrs) : hTable[name].addrs[i] = HostsFileAddrs[1]

\* C39: AddHost(name, addrs) replaces whatever list the table held for the
\* name, one loaded from the hosts file included, and RemoveHost(name) deletes
\* the entry whatever its origin: outside a write that is under way the entry
\* is the list of the last AddHost and nothing else, or absent after the last
\* RemoveHost; the address of the hosts file is in the table only while no
\* AddHost or RemoveHost has written the name; and a lookup after RemoveHost
\* fails with NotFound even when the hosts file defined the name.
C39_EphemeralWritesOverrideHostsFile ==
    /\ \A name \in HostsNames :
         LET last == hLast[name] IN
         /\ (hTable[name] # Torn) =>
               /\ (last.op = "AddHost") => hTable[name] = Entry(last.addrs)
               /\ (last.op = "RemoveHost") => hTable[name] = Absent
         /\ HostsStaticIn(name) => last.op = "Hosts"
    /\ \A t \in HostsCallers :
         (HostsLookedUpQuietly(t) /\ hLast[Fqdn(hCaller[t].host)].op = "RemoveHost") =>
             /\ IsNotFound(hCaller[t].ret.err)
             /\ hCaller[t].ret.addrs = NoAddrs

\* C39 witness: the first caller's lookup returned the address the hosts file
\* gives the name; the name was then removed, and the second caller's lookup
\* of it, begun after the removal, found nothing.
C39_Witness ==
    /\ HostsFileEntrySeen(1) /\ hCaller[1].host = HostApi
    /\ hLast[Fqdn(HostApi)].op = "RemoveHost"
    /\ hTable[HostsKey(HostApi)] = Absent
    /\ HostsLookedUpQuietly(2) /\ hCaller[2].host = HostApiDot
    /\ IsNotFound(hCaller[2].ret.err)

\* An AddHost replaced the list of the hosts file: the first caller's lookup
\* returned the file's address, and the second caller's, begun after an
\* AddHost of the name, returned the added addresses without it.
HostsFileEntryReplaced ==
    /\ HostsFileEntrySeen(1) /\ hCaller[1].host = HostApi
    /\ hLast[Fqdn(HostApi)].op = "AddHost"
    /\ HostsLookedUpQuietly(2) /\ hCaller[2].host = HostApi
    /\ hCaller[2].ret.err = Nil /\ Len(hCaller[2].ret.addrs) = 2

====
